---- MODULE Spec2Model ----
(***************************************************************************)
(* Fact-table builder and time-series analyzer of the Asia filings server. *)
(*                                                                         *)
(* Strings the code inspects (concepts, dimension keys, document ids) are  *)
(* sequences of one-character strings, so that toLowerCase, includes,      *)
(* split and localeCompare are computed and not assumed.  A value that may *)
(* be null or undefined is <<>> when it is and <<v>> when it is v; an      *)
(* object is a record that has exactly the keys that were supplied.  Money *)
(* amounts are integers; a quotient the code computes in floating point is *)
(* kept as the exact fraction [num, den].  A character outside ASCII is    *)
(* written by its code point ("U+5730").                                   *)
(***************************************************************************)
EXTENDS Integers, Sequences, FiniteSets, TLC

VARIABLES
    ft_pc,        \* buildFactTable: "idle", "awaitFilings", "awaitFacts", "done"
    ft_params,    \* the params object of the running buildFactTable call
    ft_filingInfo,\* filingInfo of the running call
    ft_calls,     \* upstream API calls issued so far, in order
    ft_xbrlData,  \* xbrlData.facts as the upstream call returned it
    ft_result,    \* what the call returned or threw
    ts_pc,        \* timeSeriesAnalysis: "idle", "collected" (fetch loop over), "done"
    ts_options,   \* the options object of the running timeSeriesAnalysis call
    ts_periodData,\* periodData as collected by the fetch loop
    ts_result,    \* what timeSeriesAnalysis returned
    cf_pc,        \* getCompanyFilings: "idle", "loop", "done"
    cf_params,    \* its edinetCode and options
    cf_window,    \* what EDINET lists for each date of the lookup window, oldest first
    cf_day,       \* currentDate, as the index of the date in the window
    cf_allFilings,\* allFilings
    cf_result,    \* what getCompanyFilings returned
    tl_pc,        \* fetch loop of timeSeriesAnalysis: "idle", "awaitFilings",
                  \* "loop", "awaitFacts", "delay", "over"
    tl_country,   \* params.country
    tl_units,     \* filings.filings (JP) or the business years (KR), in loop order
    tl_i,         \* the loop index i
    tl_processedCount, \* processedCount
    tl_log,       \* fetches, their outcomes and pacing delays, in order
    fn_op,        \* the pure function applied, "idle" before
    fn_in,        \* its argument
    fn_out        \* what it returned

vars == <<ft_pc, ft_params, ft_filingInfo, ft_calls, ft_xbrlData, ft_result,
          ts_pc, ts_options, ts_periodData, ts_result,
          cf_pc, cf_params, cf_window, cf_day, cf_allFilings, cf_result,
          tl_pc, tl_country, tl_units, tl_i, tl_processedCount, tl_log,
          fn_op, fn_in, fn_out>>

ft_vars == <<ft_pc, ft_params, ft_filingInfo, ft_calls, ft_xbrlData, ft_result>>
ts_vars == <<ts_pc, ts_options, ts_periodData, ts_result>>
cf_vars == <<cf_pc, cf_params, cf_window, cf_day, cf_allFilings, cf_result>>
tl_vars == <<tl_pc, tl_country, tl_units, tl_i, tl_processedCount, tl_log>>
fn_vars == <<fn_op, fn_in, fn_out>>

\* the variables of the other calls
not_ft == <<ts_vars, cf_vars, tl_vars, fn_vars>>
not_ts == <<ft_vars, cf_vars, tl_vars, fn_vars>>
not_cf == <<ft_vars, ts_vars, tl_vars, fn_vars>>
not_tl == <<ft_vars, cf_vars, fn_vars>>
not_fn == <<ft_vars, ts_vars, cf_vars, tl_vars>>

\* a nullable value: None is null or undefined, Some(v) is v
None == <<>>
Some(v) == <<v>>

-----------------------------------------------------------------------------
(* Bounds of the model *)

\* longest fact list one filing yields
MaxFacts == 3
\* most periods the fetch loop collects
MaxPeriods == 2
\* dates in the lookup window of getCompanyFilings
MaxDays == 3
\* words in a concept name
MaxTokens == 2
\* entries of a dimensions object
MaxDims == 2
\* ix:nonFraction elements of a document, items of a DART list
MaxElements == 2

-----------------------------------------------------------------------------
(* JavaScript helpers *)

Abs(x) == IF x < 0 THEN -x ELSE x

IsNull(v) == v = None

\* ToNumber on a number or null (null - 5 = -5, Math.min(null, 3) = 0)
Num(v) == IF v = <<>> THEN 0 ELSE v[1]

RECURSIVE SumSeq(_)
SumSeq(s) == IF s = <<>> THEN 0 ELSE Head(s) + SumSeq(Tail(s))

RECURSIVE MinSeq(_)
MinSeq(s) ==
    IF Len(s) = 1 THEN s[1]
    ELSE LET m == MinSeq(Tail(s)) IN IF s[1] < m THEN s[1] ELSE m

RECURSIVE MaxSeq(_)
MaxSeq(s) ==
    IF Len(s) = 1 THEN s[1]
    ELSE LET m == MaxSeq(Tail(s)) IN IF s[1] > m THEN s[1] ELSE m

\* Array.prototype.filter with the predicate given as the set of kept indices
RECURSIVE FilterIdx(_, _, _)
FilterIdx(s, keep, i) ==
    IF i > Len(s) THEN <<>>
    ELSE (IF i \in keep THEN <<s[i]>> ELSE <<>>) \o FilterIdx(s, keep, i + 1)

\* a slice that keeps one element more than asked
Slice0OneMore(s, end) == SubSeq(s, 1, IF end + 1 > Len(s) THEN Len(s) ELSE end + 1)

\* Array.prototype.slice(0, end)
Slice0(s, end) ==
    LET e == IF end < 0 THEN (IF Len(s) + end < 0 THEN 0 ELSE Len(s) + end)
             ELSE IF end > Len(s) THEN Len(s) ELSE end
    IN SubSeq(s, 1, e)

LowerLetters == <<"a","b","c","d","e","f","g","h","i","j","k","l","m",
                  "n","o","p","q","r","s","t","u","v","w","x","y","z">>
UpperLetters == <<"A","B","C","D","E","F","G","H","I","J","K","L","M",
                  "N","O","P","Q","R","S","T","U","V","W","X","Y","Z">>

IsUpper(c) == \E i \in 1..26 : UpperLetters[i] = c
IsLower(c) == \E i \in 1..26 : LowerLetters[i] = c
LetterIndex(c) ==
    IF IsUpper(c) THEN CHOOSE i \in 1..26 : UpperLetters[i] = c
    ELSE IF IsLower(c) THEN CHOOSE i \in 1..26 : LowerLetters[i] = c
    ELSE 0

\* String.prototype.toLowerCase
toLowerCase(s) ==
    [i \in 1..Len(s) |-> IF IsUpper(s[i]) THEN LowerLetters[LetterIndex(s[i])] ELSE s[i]]

\* String.prototype.includes
includes(s, k) ==
    \E i \in 0..(Len(s) - Len(k)) : SubSeq(s, i + 1, i + Len(k)) = k

\* String.prototype.split(sep) for a one-character separator
RECURSIVE split(_, _)
split(s, sep) ==
    IF \A i \in 1..Len(s) : s[i] # sep THEN <<s>>
    ELSE LET i == CHOOSE j \in 1..Len(s) :
                      s[j] = sep /\ \A k \in 1..(j - 1) : s[k] # sep
         IN <<SubSeq(s, 1, i - 1)>> \o split(SubSeq(s, i + 1, Len(s)), sep)

\* String.prototype.localeCompare on Latin letters: the letters decide first,
\* case ignored (a shorter prefix sorts first); between strings that differ in
\* case only, the first differing position decides, lower case first.
RECURSIVE PrimaryCompare(_, _)
PrimaryCompare(a, b) ==
    IF a = <<>> /\ b = <<>> THEN 0
    ELSE IF a = <<>> THEN -1
    ELSE IF b = <<>> THEN 1
    ELSE IF LetterIndex(a[1]) < LetterIndex(b[1]) THEN -1
    ELSE IF LetterIndex(a[1]) > LetterIndex(b[1]) THEN 1
    ELSE PrimaryCompare(Tail(a), Tail(b))

RECURSIVE CaseCompare(_, _)
CaseCompare(a, b) ==
    IF a = <<>> \/ b = <<>> THEN 0
    ELSE IF a[1] = b[1] THEN CaseCompare(Tail(a), Tail(b))
    ELSE IF IsLower(a[1]) THEN -1 ELSE 1

localeCompare(a, b) ==
    LET p == PrimaryCompare(a, b) IN IF p # 0 THEN p ELSE CaseCompare(a, b)

\* The comparators the code hands to Array.prototype.sort, by name.  A period
\* is a date string "YYYY-MM-DD"; it is kept as the number of its date, which
\* orders as the string does under sort() and under localeCompare.
Compare(key, a, b) ==
    CASE key = "deviation"   -> Abs(a.deviationFromTarget) - Abs(b.deviationFromTarget)
      [] key = "value"       -> Num(b.value) - Num(a.value)
      [] key = "concept"     -> localeCompare(a.concept, b.concept)
      [] key = "periodDesc"  -> b.period - a.period
      [] key = "periodValue" -> IF b.period # a.period THEN b.period - a.period
                                ELSE Num(b.value) - Num(a.value)
      [] key = "growthAbs"   -> Abs(b.growthRate) - Abs(a.growthRate)
      [] key = "default"     -> a - b
      [] OTHER               -> 0

\* Array.prototype.sort(cmp): a stable sort
RECURSIVE InsertStable(_, _, _)
InsertStable(sorted, x, key) ==
    IF sorted = <<>> THEN <<x>>
    ELSE LET last == sorted[Len(sorted)]
         IN IF Compare(key, last, x) <= 0 THEN Append(sorted, x)
            ELSE Append(InsertStable(SubSeq(sorted, 1, Len(sorted) - 1), x, key), last)

RECURSIVE SortStable(_, _)
SortStable(s, key) ==
    IF s = <<>> THEN <<>>
    ELSE InsertStable(SortStable(SubSeq(s, 1, Len(s) - 1), key), s[Len(s)], key)

-----------------------------------------------------------------------------
(* Dimension extraction (fact-table-builder.js) *)

geoKeys ==
    << <<"G", "e", "o", "g", "r", "a", "p", "h", "i", "c", "a", "l", "A", "r", "e", "a", "s", "M", "e", "m", "b", "e", "r">>,
      <<"C", "o", "u", "n", "t", "r", "i", "e", "s", "M", "e", "m", "b", "e", "r">>,
      <<"R", "e", "g", "i", "o", "n", "s", "M", "e", "m", "b", "e", "r">>,
      <<"S", "t", "a", "t", "e", "m", "e", "n", "t", "G", "e", "o", "g", "r", "a", "p", "h", "i", "c", "a", "l", "A", "x", "i", "s">>,
      <<"G", "e", "o", "g", "r", "a", "p", "h", "i", "c", "A", "r", "e", "a">>,
      <<"U+5730", "U+57DF">>,
      <<"R", "e", "g", "i", "o", "n">>,
      <<"U+C9C0", "U+C5ED">>,
      <<"A", "r", "e", "a">> >>

segmentKeys ==
    << <<"S", "e", "g", "m", "e", "n", "t", "s", "M", "e", "m", "b", "e", "r">>,
      <<"B", "u", "s", "i", "n", "e", "s", "s", "S", "e", "g", "m", "e", "n", "t", "s", "M", "e", "m", "b", "e", "r">>,
      <<"O", "p", "e", "r", "a", "t", "i", "n", "g", "S", "e", "g", "m", "e", "n", "t", "s", "M", "e", "m", "b", "e", "r">>,
      <<"S", "t", "a", "t", "e", "m", "e", "n", "t", "B", "u", "s", "i", "n", "e", "s", "s", "S", "e", "g", "m", "e", "n", "t", "s", "A", "x", "i", "s">>,
      <<"S", "e", "g", "m", "e", "n", "t">>,
      <<"U+30BB", "U+30B0", "U+30E1", "U+30F3", "U+30C8">>,
      <<"B", "u", "s", "i", "n", "e", "s", "s", "S", "e", "g", "m", "e", "n", "t">>,
      <<"U+C0AC", "U+C5C5", "U+BD80", "U+BB38">>,
      <<"U+BD80", "U+BB38">> >>

productKeys ==
    << <<"P", "r", "o", "d", "u", "c", "t", "s", "A", "n", "d", "S", "e", "r", "v", "i", "c", "e", "s", "M", "e", "m", "b", "e", "r">>,
      <<"P", "r", "o", "d", "u", "c", "t", "M", "e", "m", "b", "e", "r">>,
      <<"S", "u", "b", "s", "e", "g", "m", "e", "n", "t", "s", "A", "x", "i", "s">>,
      <<"P", "r", "o", "d", "u", "c", "t">>,
      <<"U+88FD", "U+54C1">>,
      <<"U+5546", "U+54C1">>,
      <<"U+C81C", "U+D488">>,
      <<"U+C0C1", "U+D488">> >>

MemberSuffix == <<"M", "e", "m", "b", "e", "r">>

\* .replace(/Member$/, '')
StripMemberSuffix(s) ==
    IF Len(s) >= Len(MemberSuffix)
       /\ SubSeq(s, Len(s) - Len(MemberSuffix) + 1, Len(s)) = MemberSuffix
    THEN SubSeq(s, 1, Len(s) - Len(MemberSuffix))
    ELSE s

\* .replace(/([A-Z])/g, ' $1')
RECURSIVE SpaceBeforeCapitals(_)
SpaceBeforeCapitals(s) ==
    IF s = <<>> THEN <<>>
    ELSE (IF IsUpper(s[1]) THEN <<" ", s[1]>> ELSE <<s[1]>>) \o SpaceBeforeCapitals(Tail(s))

\* String.prototype.trim
RECURSIVE trim(_)
trim(s) ==
    IF s = <<>> THEN s
    ELSE IF s[1] = " " THEN trim(Tail(s))
    ELSE IF s[Len(s)] = " " THEN trim(SubSeq(s, 1, Len(s) - 1))
    ELSE s

\* value is a string; the empty string is returned as it is
cleanDimensionValue(value) ==
    IF value = <<>> THEN value
    ELSE LET parts == split(value, ":")
         IN trim(SpaceBeforeCapitals(StripMemberSuffix(parts[Len(parts)])))

\* the extractor loop returning at the last key that holds a keyword
ExtractByKeysLast(dimensions, keys) ==
    IF dimensions = None THEN None
    ELSE LET dims == dimensions[1]
             hits == {i \in 1..Len(dims) :
                         \E k \in 1..Len(keys) : includes(dims[i][1], keys[k])}
         IN IF hits = {} THEN None
            ELSE LET last == CHOOSE i \in hits : \A j \in hits : i >= j
                 IN Some(cleanDimensionValue(dims[last][2]))

\* The loop shared by the three extractors: dimensions is None, or Some of the
\* object's entries <<key, value>> in insertion order.  The result is nullable.
ExtractByKeys(dimensions, keys) ==
    IF dimensions = None THEN None
    ELSE LET dims == dimensions[1]
             hits == {i \in 1..Len(dims) :
                         \E k \in 1..Len(keys) : includes(dims[i][1], keys[k])}
         IN IF hits = {} THEN None
            ELSE LET first == CHOOSE i \in hits : \A j \in hits : i <= j
                 IN Some(cleanDimensionValue(dims[first][2]))

extractGeographyFromDimensions(dimensions) == ExtractByKeys(dimensions, geoKeys)
extractSegmentFromDimensions(dimensions) == ExtractByKeys(dimensions, segmentKeys)
extractProductFromDimensions(dimensions) == ExtractByKeys(dimensions, productKeys)

hasGeographyDimension(dimensions) == extractGeographyFromDimensions(dimensions) # None
hasSegmentDimension(dimensions) == extractSegmentFromDimensions(dimensions) # None
hasProductDimension(dimensions) == extractProductFromDimensions(dimensions) # None

\* Object.keys(fact.dimensions || {}).length
dimensionCount(dimensions) == IF dimensions = None THEN 0 ELSE Len(dimensions[1])

-----------------------------------------------------------------------------
(* Keyword lists of classifyFact (xbrl-parser.js) *)

\* the keywords of the expense rule
ExpenseKeywords ==
    {<<"e", "x", "p", "e", "n", "s", "e">>,
     <<"c", "o", "s", "t">>,
     <<"U+BE44", "U+C6A9">>,
     <<"U+C6D0", "U+AC00">>,
     <<"U+8CBB", "U+7528">>,
     <<"U+7D4C", "U+8CBB">>,
     <<"U+8CA9", "U+58F2", "U+8CBB">>}

\* the keywords of the revenue rule
RevenueKeywords ==
    {<<"r", "e", "v", "e", "n", "u", "e">>,
     <<"s", "a", "l", "e", "s">>,
     <<"n", "e", "t", "r", "e", "v", "e", "n", "u", "e">>,
     <<"n", "e", "t", "s", "a", "l", "e", "s">>,
     <<"U+B9E4", "U+CD9C">>,
     <<"U+C218", "U+C775">>,
     <<"U+58F2", "U+4E0A">>,
     <<"U+55B6", "U+696D", "U+53CE", "U+76CA">>,
     <<"U+53CE", "U+76CA">>}

\* the keywords of the asset rule
AssetKeywords ==
    {<<"a", "s", "s", "e", "t">>,
     <<"U+C790", "U+C0B0">>,
     <<"U+8CC7", "U+7523">>}

\* the keywords of the liability rule
LiabilityKeywords ==
    {<<"l", "i", "a", "b", "i", "l", "i", "t">>,
     <<"U+BD80", "U+CC44">>,
     <<"U+8CA0", "U+50B5">>}

\* current
CurrentKeywords ==
    {<<"c", "u", "r", "r", "e", "n", "t">>,
     <<"U+C720", "U+B3D9">>,
     <<"U+6D41", "U+52D5">>}

\* non-current
NonCurrentKeywords ==
    {<<"n", "o", "n", "c", "u", "r", "r", "e", "n", "t">>,
     <<"n", "o", "n", "-", "c", "u", "r", "r", "e", "n", "t">>,
     <<"U+BE44", "U+C720", "U+B3D9">>,
     <<"U+56FA", "U+5B9A">>}

\* total
TotalKeywords ==
    {<<"t", "o", "t", "a", "l">>,
     <<"U+D569", "U+ACC4">>,
     <<"U+7DCF">>}

\* the keywords of the rules after the liability rule: equity, income, cash,
\* inventory, receivables, payables, depreciation
LaterRuleKeywords ==
    {<<"e", "q", "u", "i", "t", "y">>,
     <<"U+C790", "U+BCF8">>,
     <<"U+8CC7", "U+672C">>,
     <<"n", "e", "t", "a", "s", "s", "e", "t", "s">>,
     <<"s", "t", "o", "c", "k", "h", "o", "l", "d", "e", "r", "s", "e", "q", "u", "i", "t", "y">>,
     <<"U+7D14", "U+8CC7", "U+7523">>,
     <<"i", "n", "c", "o", "m", "e">>,
     <<"p", "r", "o", "f", "i", "t">>,
     <<"U+B2F9", "U+AE30", "U+C21C", "U+C774", "U+C775">>,
     <<"U+C774", "U+C775">>,
     <<"U+5229", "U+76CA">>,
     <<"U+6240", "U+5F97">>,
     <<"n", "e", "t", "i", "n", "c", "o", "m", "e">>,
     <<"n", "e", "t", "p", "r", "o", "f", "i", "t">>,
     <<"U+5F53", "U+671F", "U+7D14", "U+5229", "U+76CA">>,
     <<"U+7A0E", "U+5F15", "U+524D", "U+5229", "U+76CA">>,
     <<"c", "a", "s", "h">>,
     <<"U+D604", "U+AE08">>,
     <<"U+73FE", "U+91D1">>,
     <<"i", "n", "v", "e", "n", "t", "o", "r">>,
     <<"U+C7AC", "U+ACE0">>,
     <<"U+68DA", "U+5378">>,
     <<"r", "e", "c", "e", "i", "v", "a", "b", "l", "e">>,
     <<"U+B9E4", "U+CD9C", "U+CC44", "U+AD8C">>,
     <<"U+58F2", "U+639B", "U+91D1">>,
     <<"U+53D7", "U+53D6">>,
     <<"p", "a", "y", "a", "b", "l", "e">>,
     <<"U+B9E4", "U+C785", "U+CC44", "U+BB34">>,
     <<"U+8CB7", "U+639B", "U+91D1">>,
     <<"d", "e", "p", "r", "e", "c", "i", "a", "t", "i", "o", "n">>,
     <<"a", "m", "o", "r", "t", "i", "z", "a", "t", "i", "o", "n">>,
     <<"U+AC10", "U+AC00", "U+C0C1", "U+AC01">>,
     <<"U+511F", "U+5374">>}

\* conceptLower.includes(k) for some keyword k of the list
ContainsAny(concept, keywords) ==
    \E k \in keywords : includes(toLowerCase(concept), k)

\* the sub-rules of the asset and liability rules, tried in the order of the code
SubRule(concept, current, nonCurrent, total, generic) ==
    IF ContainsAny(concept, CurrentKeywords) THEN current
    ELSE IF ContainsAny(concept, NonCurrentKeywords) THEN nonCurrent
    ELSE IF ContainsAny(concept, TotalKeywords) THEN total
    ELSE generic

\* classifyFact with the revenue rule tried before the expense rule
classifyFactRevenueFirst(concept) ==
    IF ContainsAny(concept, RevenueKeywords) THEN "Revenue"
    ELSE IF ContainsAny(concept, ExpenseKeywords) THEN "Expenses"
    ELSE "Other"

\* classifyFact with the total sub-rule tried before the current sub-rule
classifyFactTotalFirst(concept) ==
    IF ContainsAny(concept, ExpenseKeywords) THEN "Expenses"
    ELSE IF ContainsAny(concept, RevenueKeywords) THEN "Revenue"
    ELSE IF ContainsAny(concept, AssetKeywords)
         THEN (IF ContainsAny(concept, TotalKeywords) THEN "Total Assets"
               ELSE SubRule(concept, "Current Assets", "Non-current Assets",
                            "Total Assets", "Assets"))
    ELSE IF ContainsAny(concept, LiabilityKeywords)
         THEN (IF ContainsAny(concept, TotalKeywords) THEN "Total Liabilities"
               ELSE SubRule(concept, "Current Liabilities", "Non-current Liabilities",
                            "Total Liabilities", "Liabilities"))
    ELSE "Other"

-----------------------------------------------------------------------------
(* Concept classification (xbrl-parser.js) *)

\* The taxonomy argument is never read by the code.
classifyFact(concept) ==
    LET conceptLower == toLowerCase(concept)
        has(k) == includes(conceptLower, k)
        isExpense ==
            \/ has(<<"e", "x", "p", "e", "n", "s", "e">>)
            \/ has(<<"c", "o", "s", "t">>)
            \/ has(<<"U+BE44", "U+C6A9">>)
            \/ has(<<"U+C6D0", "U+AC00">>)
            \/ has(<<"U+8CBB", "U+7528">>)
            \/ has(<<"U+7D4C", "U+8CBB">>)
            \/ has(<<"U+8CA9", "U+58F2", "U+8CBB">>)
        isOperating ==
            \/ has(<<"o", "p", "e", "r", "a", "t", "i", "n", "g">>)
            \/ has(<<"U+C601", "U+C5C5">>)
            \/ has(<<"U+55B6", "U+696D">>)
        isCostOfSales ==
            \/ has(<<"c", "o", "s", "t", "o", "f", "s", "a", "l", "e", "s">>)
            \/ has(<<"c", "o", "s", "t", "o", "f", "r", "e", "v", "e", "n", "u", "e">>)
            \/ has(<<"U+B9E4", "U+CD9C", "U+C6D0", "U+AC00">>)
            \/ has(<<"U+58F2", "U+4E0A", "U+539F", "U+4FA1">>)
        isRevenue ==
            \/ has(<<"r", "e", "v", "e", "n", "u", "e">>)
            \/ has(<<"s", "a", "l", "e", "s">>)
            \/ has(<<"n", "e", "t", "r", "e", "v", "e", "n", "u", "e">>)
            \/ has(<<"n", "e", "t", "s", "a", "l", "e", "s">>)
            \/ has(<<"U+B9E4", "U+CD9C">>)
            \/ has(<<"U+C218", "U+C775">>)
            \/ has(<<"U+58F2", "U+4E0A">>)
            \/ has(<<"U+55B6", "U+696D", "U+53CE", "U+76CA">>)
            \/ has(<<"U+53CE", "U+76CA">>)
        isAsset ==
            \/ has(<<"a", "s", "s", "e", "t">>)
            \/ has(<<"U+C790", "U+C0B0">>)
            \/ has(<<"U+8CC7", "U+7523">>)
        isCurrent ==
            \/ has(<<"c", "u", "r", "r", "e", "n", "t">>)
            \/ has(<<"U+C720", "U+B3D9">>)
            \/ has(<<"U+6D41", "U+52D5">>)
        isNonCurrent ==
            \/ has(<<"n", "o", "n", "c", "u", "r", "r", "e", "n", "t">>)
            \/ has(<<"n", "o", "n", "-", "c", "u", "r", "r", "e", "n", "t">>)
            \/ has(<<"U+BE44", "U+C720", "U+B3D9">>)
            \/ has(<<"U+56FA", "U+5B9A">>)
        isTotal ==
            \/ has(<<"t", "o", "t", "a", "l">>)
            \/ has(<<"U+D569", "U+ACC4">>)
            \/ has(<<"U+7DCF">>)
        isLiability ==
            \/ has(<<"l", "i", "a", "b", "i", "l", "i", "t">>)
            \/ has(<<"U+BD80", "U+CC44">>)
            \/ has(<<"U+8CA0", "U+50B5">>)
        isEquity ==
            \/ has(<<"e", "q", "u", "i", "t", "y">>)
            \/ has(<<"U+C790", "U+BCF8">>)
            \/ has(<<"U+8CC7", "U+672C">>)
            \/ has(<<"n", "e", "t", "a", "s", "s", "e", "t", "s">>)
            \/ has(<<"s", "t", "o", "c", "k", "h", "o", "l", "d", "e", "r", "s", "e", "q", "u", "i", "t", "y">>)
            \/ has(<<"U+7D14", "U+8CC7", "U+7523">>)
        isIncome ==
            \/ has(<<"i", "n", "c", "o", "m", "e">>)
            \/ has(<<"p", "r", "o", "f", "i", "t">>)
            \/ has(<<"U+B2F9", "U+AE30", "U+C21C", "U+C774", "U+C775">>)
            \/ has(<<"U+C774", "U+C775">>)
            \/ has(<<"U+5229", "U+76CA">>)
            \/ has(<<"U+6240", "U+5F97">>)
            \/ has(<<"n", "e", "t", "i", "n", "c", "o", "m", "e">>)
            \/ has(<<"n", "e", "t", "p", "r", "o", "f", "i", "t">>)
            \/ has(<<"U+5F53", "U+671F", "U+7D14", "U+5229", "U+76CA">>)
            \/ has(<<"U+7A0E", "U+5F15", "U+524D", "U+5229", "U+76CA">>)
        isGross ==
            \/ has(<<"g", "r", "o", "s", "s">>)
            \/ has(<<"U+B9E4", "U+CD9C", "U+CD1D">>)
            \/ has(<<"U+58F2", "U+4E0A", "U+7DCF">>)
        isCash ==
            \/ has(<<"c", "a", "s", "h">>)
            \/ has(<<"U+D604", "U+AE08">>)
            \/ has(<<"U+73FE", "U+91D1">>)
        isCashOperating ==
            \/ has(<<"o", "p", "e", "r", "a", "t", "i", "n", "g">>)
            \/ has(<<"U+C601", "U+C5C5", "U+D65C", "U+B3D9">>)
            \/ has(<<"U+55B6", "U+696D", "U+6D3B", "U+52D5">>)
        isCashInvesting ==
            \/ has(<<"i", "n", "v", "e", "s", "t", "i", "n", "g">>)
            \/ has(<<"U+D22C", "U+C790", "U+D65C", "U+B3D9">>)
            \/ has(<<"U+6295", "U+8CC7", "U+6D3B", "U+52D5">>)
        isCashFinancing ==
            \/ has(<<"f", "i", "n", "a", "n", "c", "i", "n", "g">>)
            \/ has(<<"U+C7AC", "U+BB34", "U+D65C", "U+B3D9">>)
            \/ has(<<"U+8CA1", "U+52D9", "U+6D3B", "U+52D5">>)
        isInventory ==
            \/ has(<<"i", "n", "v", "e", "n", "t", "o", "r">>)
            \/ has(<<"U+C7AC", "U+ACE0">>)
            \/ has(<<"U+68DA", "U+5378">>)
        isReceivable ==
            \/ has(<<"r", "e", "c", "e", "i", "v", "a", "b", "l", "e">>)
            \/ has(<<"U+B9E4", "U+CD9C", "U+CC44", "U+AD8C">>)
            \/ has(<<"U+58F2", "U+639B", "U+91D1">>)
            \/ has(<<"U+53D7", "U+53D6">>)
        isPayable ==
            \/ has(<<"p", "a", "y", "a", "b", "l", "e">>)
            \/ has(<<"U+B9E4", "U+C785", "U+CC44", "U+BB34">>)
            \/ has(<<"U+8CB7", "U+639B", "U+91D1">>)
        isDepreciation ==
            \/ has(<<"d", "e", "p", "r", "e", "c", "i", "a", "t", "i", "o", "n">>)
            \/ has(<<"a", "m", "o", "r", "t", "i", "z", "a", "t", "i", "o", "n">>)
            \/ has(<<"U+AC10", "U+AC00", "U+C0C1", "U+AC01">>)
            \/ has(<<"U+511F", "U+5374">>)
    IN IF isExpense THEN
            (IF isOperating THEN "Operating Expenses"
             ELSE IF isCostOfSales THEN "Cost of Sales"
             ELSE "Expenses")
       ELSE IF isRevenue THEN "Revenue"
       ELSE IF isAsset THEN
            (IF isCurrent THEN "Current Assets"
             ELSE IF isNonCurrent THEN "Non-current Assets"
             ELSE IF isTotal THEN "Total Assets"
             ELSE "Assets")
       ELSE IF isLiability THEN
            (IF isCurrent THEN "Current Liabilities"
             ELSE IF isNonCurrent THEN "Non-current Liabilities"
             ELSE IF isTotal THEN "Total Liabilities"
             ELSE "Liabilities")
       ELSE IF isEquity THEN "Equity"
       ELSE IF isIncome THEN
            (IF isOperating THEN "Operating Income"
             ELSE IF isGross THEN "Gross Profit"
             ELSE "Net Income/Profit")
       ELSE IF isCash THEN
            (IF isCashOperating THEN "Cash Flow - Operating"
             ELSE IF isCashInvesting THEN "Cash Flow - Investing"
             ELSE IF isCashFinancing THEN "Cash Flow - Financing"
             ELSE "Cash & Equivalents")
       ELSE IF isInventory THEN "Inventory"
       ELSE IF isReceivable THEN "Receivables"
       ELSE IF isPayable THEN "Payables"
       ELSE IF isDepreciation THEN "Depreciation/Amortization"
       ELSE "Other"

-----------------------------------------------------------------------------
(* Objects and spread *)

Has(obj, key) == key \in DOMAIN obj

EmptyObject == <<>>

\* { ...a, ...b }
Spread(a, b) ==
    [k \in (DOMAIN a) \cup (DOMAIN b) |-> IF k \in DOMAIN b THEN b[k] ELSE a[k]]

-----------------------------------------------------------------------------
(* Fact filter (xbrl-parser.js) *)

\* fact.period?.endDate || fact.period?.instant || ''
EffectivePeriod(fact) ==
    IF Has(fact.period, "endDate") /\ fact.period.endDate # <<>> THEN fact.period.endDate
    ELSE IF Has(fact.period, "instant") /\ fact.period.instant # <<>> THEN fact.period.instant
    ELSE <<>>

\* the callback with the bounds of valueRange taken as exclusive
FactMatchesExclusive(fact, criteria) ==
    /\ ~(/\ Has(criteria, "concept")
         /\ criteria.concept # <<>>
         /\ ~includes(toLowerCase(fact.concept), toLowerCase(criteria.concept)))
    /\ ~(Has(criteria, "hasValue") /\ criteria.hasValue /\ IsNull(fact.value))
    /\ (Has(criteria, "valueRange") /\ criteria.valueRange # None) =>
          LET valueRange == criteria.valueRange[1]
          IN /\ ~IsNull(fact.value)
             /\ ~(Has(valueRange, "min") /\ Num(fact.value) <= valueRange.min)
             /\ ~(Has(valueRange, "max") /\ Num(fact.value) >= valueRange.max)
    /\ (Has(criteria, "period") /\ criteria.period # <<>>) =>
          includes(EffectivePeriod(fact), criteria.period)
    /\ (Has(criteria, "hasDimensions") /\ criteria.hasDimensions) =>
          dimensionCount(fact.dimensions) > 0

\* the callback of facts.filter in filterFacts
FactMatches(fact, criteria) ==
    /\ ~(/\ Has(criteria, "concept")
         /\ criteria.concept # <<>>
         /\ ~includes(toLowerCase(fact.concept), toLowerCase(criteria.concept)))
    /\ ~(Has(criteria, "hasValue") /\ criteria.hasValue /\ IsNull(fact.value))
    /\ (Has(criteria, "valueRange") /\ criteria.valueRange # None) =>
          LET valueRange == criteria.valueRange[1]
          IN /\ ~IsNull(fact.value)
             /\ ~(Has(valueRange, "min") /\ Num(fact.value) < valueRange.min)
             /\ ~(Has(valueRange, "max") /\ Num(fact.value) > valueRange.max)
    /\ (Has(criteria, "period") /\ criteria.period # <<>>) =>
          includes(EffectivePeriod(fact), criteria.period)
    /\ (Has(criteria, "hasDimensions") /\ criteria.hasDimensions) =>
          dimensionCount(fact.dimensions) > 0

filterFacts(facts, criteria) ==
    FilterIdx(facts, {i \in 1..Len(facts) : FactMatches(facts[i], criteria)}, 1)

-----------------------------------------------------------------------------
(* Fact table builder (fact-table-builder.js) *)

\* Math.abs(deviation) < 1000
ExactMatchThreshold == 1000
\* defaultOptions.maxRows
DefaultMaxRows == 25
\* tolerance = 50000000
DefaultTolerance == 50000000

defaultOptions ==
    [maxRows |-> DefaultMaxRows, showDimensions |-> TRUE,
     sortBy |-> "deviation", filters |-> EmptyObject]

\* fact.period?.instant ? 'instant' : 'duration'
periodType(fact) ==
    IF Has(fact.period, "instant") /\ fact.period.instant # <<>> THEN "instant"
    ELSE "duration"

\* the callback of matchingFacts.map in buildFactTable (formatted strings left out)
EnrichFact(fact, index, targetValue) ==
    LET deviation == Num(fact.value) - targetValue
    IN [rowNumber |-> index,
        concept |-> fact.concept,
        value |-> fact.value,
        exactMatch |-> Abs(deviation) < ExactMatchThreshold,
        deviationFromTarget |-> deviation,
        periodType |-> periodType(fact),
        dimensions |-> IF fact.dimensions = None THEN <<>> ELSE fact.dimensions[1],
        dimensionCount |-> dimensionCount(fact.dimensions),
        geography |-> extractGeographyFromDimensions(fact.dimensions),
        segment |-> extractSegmentFromDimensions(fact.dimensions),
        product |-> extractProductFromDimensions(fact.dimensions),
        hasGeographicDimension |-> hasGeographyDimension(fact.dimensions),
        hasSegmentDimension |-> hasSegmentDimension(fact.dimensions),
        hasProductDimension |-> hasProductDimension(fact.dimensions),
        businessClassification |-> classifyFact(fact.concept)]

EnrichFacts(matchingFacts, targetValue) ==
    [i \in 1..Len(matchingFacts) |-> EnrichFact(matchingFacts[i], i, targetValue)]

\* a sort whose result is dropped
sortFactsDropped(facts, sortBy) == facts

sortFacts(facts, sortBy) ==
    IF sortBy \in {"deviation", "value", "concept"} THEN SortStable(facts, sortBy)
    ELSE facts

\* a reduce callback that compares the signed deviations
CloserSigned(fact, closest) == fact.deviationFromTarget < closest.deviationFromTarget

\* Math.abs(fact.deviationFromTarget) < Math.abs(closest.deviationFromTarget)
Closer(fact, closest) ==
    Abs(fact.deviationFromTarget) < Abs(closest.deviationFromTarget)

\* facts.reduce((closest, fact) => Closer(fact, closest) ? fact : closest, facts[0])
RECURSIVE ClosestFrom(_, _, _)
ClosestFrom(facts, i, closest) ==
    IF i > Len(facts) THEN closest
    ELSE ClosestFrom(facts, i + 1, IF Closer(facts[i], closest) THEN facts[i] ELSE closest)

\* getGeographicBreakdown / getSegmentBreakdown: kind is "geography" or "segment"
Breakdown(facts, kind) ==
    LET labelled == {i \in 1..Len(facts) : facts[i][kind] # None /\ facts[i][kind][1] # <<>>}
        labels == {facts[i][kind][1] : i \in labelled}
    IN [l \in labels |->
          LET idx == {i \in labelled : facts[i][kind][1] = l}
              vals == FilterIdx([i \in 1..Len(facts) |-> Num(facts[i].value)], idx, 1)
          IN [count |-> Cardinality(idx),
              totalValue |-> SumSeq(vals),
              avgValue |-> [num |-> SumSeq(vals), den |-> Cardinality(idx)]]]

getGeographicBreakdown(facts) == Breakdown(facts, "geography")
getSegmentBreakdown(facts) == Breakdown(facts, "segment")

generateFactTableSummary(facts) ==
    IF Len(facts) = 0
    THEN [totalFacts |-> 0, exactMatches |-> 0, message |-> "No facts found"]
    ELSE LET values == [i \in 1..Len(facts) |-> Num(facts[i].value)]
             n == Len(facts)
         IN [totalFacts |-> n,
             exactMatches |-> Cardinality({i \in 1..n : facts[i].exactMatch}),
             conceptTypes |-> {facts[i].concept : i \in 1..n},
             uniqueConcepts |-> Cardinality({facts[i].concept : i \in 1..n}),
             factsWithGeography |-> Cardinality({i \in 1..n : facts[i].hasGeographicDimension}),
             factsWithSegments |-> Cardinality({i \in 1..n : facts[i].hasSegmentDimension}),
             factsWithProducts |-> Cardinality({i \in 1..n : facts[i].hasProductDimension}),
             factsWithDimensions |-> Cardinality({i \in 1..n : facts[i].dimensionCount > 0}),
             valueRange |-> [min |-> MinSeq(values), max |-> MaxSeq(values),
                             average |-> [num |-> SumSeq(values), den |-> n]],
             businessTypes |->
                 [t \in {facts[i].businessClassification : i \in 1..n} |->
                     Cardinality({i \in 1..n : facts[i].businessClassification = t})],
             periodTypes |-> {facts[i].periodType : i \in 1..n},
             geographicBreakdown |-> getGeographicBreakdown(facts),
             segmentBreakdown |-> getSegmentBreakdown(facts),
             closestMatch |-> ClosestFrom(facts, 1, facts[1])]

\* { valueRange: {min, max}, hasValue: true, ...tableOptions.filters }
searchCriteria(targetValue, tolerance, tableOptions) ==
    Spread([valueRange |-> Some([min |-> targetValue - tolerance,
                                 max |-> targetValue + tolerance]),
            hasValue |-> TRUE],
           tableOptions.filters)

\* buildFactTable from "2. Find facts in value range" to its return
TableFromFacts(facts, targetValue, tolerance, tableOptions, filingInfo) ==
    LET searchRange == [min |-> targetValue - tolerance, max |-> targetValue + tolerance]
        matchingFacts == filterFacts(facts, searchCriteria(targetValue, tolerance, tableOptions))
        enrichedFacts == sortFacts(EnrichFacts(matchingFacts, targetValue), tableOptions.sortBy)
        limitedFacts == Slice0(enrichedFacts, tableOptions.maxRows)
    IN IF Len(matchingFacts) = 0
       THEN [status |-> "ok", filing_info |-> filingInfo, searchRange |-> searchRange,
             table |-> <<>>,
             summary |-> [totalFacts |-> 0,
                          message |-> "No facts found in the specified value range"]]
       ELSE [status |-> "ok", filing_info |-> filingInfo, searchRange |-> searchRange,
             table |-> limitedFacts,
             summary |-> generateFactTableSummary(enrichedFacts),
             totalFactsFound |-> Len(enrichedFacts),
             totalFactsReturned |-> Len(limitedFacts)]

\* the catch of buildFactTable: every error is rethrown with the prefix
\* "Failed to build fact table: "
Failed(message) == [status |-> "error", message |-> message]

-----------------------------------------------------------------------------
(* Inputs of buildFactTable *)

Fact(concept, value, period, dimensions) ==
    [concept |-> concept, value |-> value, period |-> period, dimensions |-> dimensions]

Date2023 == <<"2", "0", "2", "3", "-", "0", "3">>
Date2022 == <<"2", "0", "2", "2", "-", "0", "3">>

\* The facts a filing may hold: on target, on either edge of the window (equal
\* absolute deviation), outside the window, and without a numeric value.
FactUniverse ==
    { Fact(<<"N", "e", "t", "S", "a", "l", "e", "s">>, Some(5000), [startDate |-> Date2022, endDate |-> Date2023],
           Some(<< <<<<"j", "p", ":", "R", "e", "g", "i", "o", "n", "A", "x", "i", "s">>, <<"j", "p", ":", "J", "a", "p", "a", "n", "M", "e", "m", "b", "e", "r">>>> >>)),
      Fact(<<"a", "s", "s", "e", "t", "s">>, Some(4000), [instant |-> Date2023], None),
      Fact(<<"C", "a", "s", "h">>, Some(6000), [instant |-> Date2022],
           Some(<< <<<<"S", "e", "g", "m", "e", "n", "t", "s", "M", "e", "m", "b", "e", "r">>, <<"R", "e", "t", "a", "i", "l", "B", "a", "n", "k", "i", "n", "g", "M", "e", "m", "b", "e", "r">>>> >>)),
      Fact(<<"C", "o", "s", "t", "O", "f", "S", "a", "l", "e", "s">>, Some(7000), [startDate |-> Date2022, endDate |-> Date2023], Some(<<>>)),
      Fact(<<"n", "e", "t", "s", "a", "l", "e", "s">>, None, EmptyObject, None) }

\* what fetchFilingFacts(documentId) may return as facts
FilingFactLists == UNION {[1..n -> FactUniverse] : n \in 0..MaxFacts}

DocS100 == <<"S", "1", "0", "0">>
DocS200 == <<"S", "2", "0", "0">>
Filing(id) == [document_id |-> id]

\* what getCompanyFilings(companyId, {limit: 1}) may return as filings
FilingLists == {<<>>, <<Filing(DocS200)>>}

ReportCodeAnnual == <<"1", "1", "0", "1", "1">>

KrDocumentIds == {<<"2", "0", "2", "3", ":", "1", "1", "0", "1", "2">>, <<"2", "0", "2", "3">>, <<"2", "0", "2", "3", ":">>, <<>>}

TargetValues == {5000}
ToleranceChoices == {EmptyObject, [tolerance |-> 1000]}
MaxRowsChoices == {EmptyObject, [maxRows |-> 0], [maxRows |-> 1], [maxRows |-> 2]}
SortByChoices == {EmptyObject, [sortBy |-> "value"], [sortBy |-> "concept"]}
FiltersChoices ==
    { EmptyObject,
      [filters |-> [concept |-> <<"S", "A", "L", "E", "S">>]],
      [filters |-> [valueRange |-> Some([max |-> 7000])]],
      [filters |-> [valueRange |-> None, hasValue |-> FALSE]] }

OptionsChoices ==
    {Spread(Spread(m, s), f) : m \in MaxRowsChoices, s \in SortByChoices, f \in FiltersChoices}

DocumentIdChoices(country) ==
    IF country = "JP" THEN {EmptyObject, [documentId |-> DocS100]}
    ELSE IF country = "KR" THEN {EmptyObject} \cup {[documentId |-> d] : d \in KrDocumentIds}
    ELSE {EmptyObject}

Countries == {"JP", "KR", "US"}

\* every way into the call with the options left out, and every choice of
\* options on the JP call that names its document and its tolerance
BuildFactTableParams ==
    UNION { { Spread(Spread([country |-> c, targetValue |-> t, options |-> EmptyObject], tol), d) :
                d \in DocumentIdChoices(c),
                tol \in (IF c = "JP" THEN ToleranceChoices ELSE {EmptyObject}) } :
            c \in Countries, t \in TargetValues }
    \cup { [country |-> "JP", targetValue |-> t, tolerance |-> 1000,
            documentId |-> DocS100, options |-> o] :
              t \in TargetValues, o \in OptionsChoices }

-----------------------------------------------------------------------------
(* buildFactTable: one action per stretch of code between two awaits *)

ApiCall(api, args) == [api |-> api, args |-> args]

\* tolerance = 50000000, documentId = null, options = {}
FtTolerance == IF Has(ft_params, "tolerance") THEN ft_params.tolerance ELSE DefaultTolerance
FtDocumentId == IF Has(ft_params, "documentId") THEN ft_params.documentId ELSE <<>>
FtTableOptions == Spread(defaultOptions, ft_params.options)

FtFinish(result) ==
    /\ ft_result' = result
    /\ ft_pc' = "done"

\* entry of buildFactTable up to its first await, or to the throw before it
FT_Call ==
    /\ ft_pc = "idle"
    /\ ts_pc = "idle"
    /\ \E params \in BuildFactTableParams :
        LET documentId == IF Has(params, "documentId") THEN params.documentId ELSE <<>>
        IN /\ ft_params' = params
           /\ IF params.country = "JP" THEN
                 IF documentId = <<>>
                 THEN /\ ft_calls' = Append(ft_calls,
                              ApiCall("edinetApi.getCompanyFilings", <<1>>))
                      /\ ft_pc' = "awaitFilings"
                      /\ UNCHANGED <<ft_filingInfo, ft_result>>
                 ELSE /\ ft_calls' = Append(ft_calls,
                              ApiCall("edinetApi.getFilingFacts", <<documentId>>))
                      /\ ft_filingInfo' = EmptyObject
                      /\ ft_pc' = "awaitFacts"
                      /\ UNCHANGED ft_result
              ELSE IF params.country = "KR" THEN
                 IF documentId = <<>>
                 THEN /\ FtFinish(Failed("business_year and report_code are required for Korean filings"))
                      /\ UNCHANGED <<ft_calls, ft_filingInfo>>
                 ELSE LET parts == split(documentId, ":")
                          businessYear == parts[1]
                          reportCode == IF Len(parts) >= 2 THEN Some(parts[2]) ELSE None
                      IN /\ ft_calls' = Append(ft_calls,
                                 ApiCall("dartApi.getFinancialStatements",
                                         <<businessYear,
                                           IF reportCode = None \/ reportCode = Some(<<>>)
                                           THEN ReportCodeAnnual ELSE reportCode[1]>>))
                         /\ ft_filingInfo' = [business_year |-> businessYear,
                                              report_code |-> reportCode]
                         /\ ft_pc' = "awaitFacts"
                         /\ UNCHANGED ft_result
              ELSE /\ FtFinish(Failed("Unsupported country. Use JP for Japan or KR for Korea"))
                   /\ UNCHANGED <<ft_calls, ft_filingInfo>>
    /\ UNCHANGED <<ft_xbrlData, not_ft>>

\* getCompanyFilings resolves: filings[0] is taken, or the list is empty
FT_FilingsReturn ==
    /\ ft_pc = "awaitFilings"
    /\ \E filings \in FilingLists :
        IF Len(filings) = 0
        THEN /\ FtFinish(Failed("No filings found for company"))
             /\ UNCHANGED <<ft_calls, ft_filingInfo>>
        ELSE /\ ft_filingInfo' = filings[1]
             /\ ft_calls' = Append(ft_calls,
                     ApiCall("edinetApi.getFilingFacts", <<filings[1].document_id>>))
             /\ ft_pc' = "awaitFacts"
             /\ UNCHANGED ft_result
    /\ UNCHANGED <<ft_params, ft_xbrlData, not_ft>>

\* an awaited upstream call rejects
FT_UpstreamThrows ==
    /\ ft_pc \in {"awaitFilings", "awaitFacts"}
    /\ FtFinish(Failed(ft_calls[Len(ft_calls)].api))
    /\ UNCHANGED <<ft_params, ft_calls, ft_filingInfo, ft_xbrlData, not_ft>>

\* getFilingFacts resolves with {facts}: filter, enrich, sort, truncate, summarise.
\* edinet-api.js exports no getFilingFacts; what it resolves with is taken from
\* its contract, fetchFilingFacts(documentId) -> {facts}.
FT_FactsReturn ==
    /\ ft_pc = "awaitFacts"
    /\ ft_params.country = "JP"
    /\ \E facts \in FilingFactLists :
        LET targetDocId == ft_calls[Len(ft_calls)].args[1]
            filingInfo == Spread(ft_filingInfo, [document_id |-> targetDocId])
        IN /\ ft_filingInfo' = filingInfo
           /\ ft_xbrlData' = facts
           /\ FtFinish(TableFromFacts(facts, ft_params.targetValue, FtTolerance,
                                      FtTableOptions, filingInfo))
    /\ UNCHANGED <<ft_params, ft_calls, not_ft>>

\* getFinancialStatements resolves: its object has statements and no facts, so
\* xbrlData.facts is undefined and filterFacts throws on facts.filter
FT_StatementsReturn ==
    /\ ft_pc = "awaitFacts"
    /\ ft_params.country = "KR"
    /\ FtFinish(Failed("Cannot read properties of undefined (reading 'filter')"))
    /\ UNCHANGED <<ft_params, ft_calls, ft_filingInfo, ft_xbrlData, not_ft>>

FTNext ==
    \/ FT_Call
    \/ FT_FilingsReturn
    \/ FT_UpstreamThrows
    \/ FT_FactsReturn
    \/ FT_StatementsReturn


-----------------------------------------------------------------------------
(* Time-series analyzer (time-series-analyzer.js) *)

\* [...new Set(xs)]: first occurrences, in order
RECURSIVE Unique(_)
Unique(xs) ==
    IF xs = <<>> THEN <<>>
    ELSE LET init == Unique(SubSeq(xs, 1, Len(xs) - 1))
             x == xs[Len(xs)]
         IN IF \E i \in 1..Len(init) : init[i] = x THEN init ELSE Append(init, x)

\* number.toFixed(2) of num/den (den > 0), in hundredths; the magnitude is
\* rounded, a tie going up, and the sign put back
ToFixed2(num, den) ==
    LET m == Abs(num) * 100
        q == m \div den
        r == m - q * den
        n == IF 2 * r >= den THEN q + 1 ELSE q
    IN IF num < 0 THEN -n ELSE n

TotalLabel == <<"T", "o", "t", "a", "l">>

\* the callback of facts.map in timeSeriesAnalysis
EnrichPeriodFact(fact) ==
    LET geography == extractGeographyFromDimensions(fact.dimensions)
        segment == extractSegmentFromDimensions(fact.dimensions)
    IN [concept |-> fact.concept, value |-> fact.value, period |-> fact.period,
        dimensions |-> fact.dimensions,
        geography |-> IF geography = None \/ geography = Some(<<>>) THEN TotalLabel
                      ELSE geography[1],
        segment |-> IF segment = None \/ segment = Some(<<>>) THEN TotalLabel
                    ELSE segment[1]]

\* the table left in the order the periods were collected
buildTimeSeriesTableUnsorted(periodData) ==
    LET RECURSIVE Rows(_)
        Rows(i) ==
            IF i > Len(periodData) THEN <<>>
            ELSE [j \in 1..Len(periodData[i].facts) |->
                    LET fact == periodData[i].facts[j]
                    IN [period |-> periodData[i].period,
                        document_id |-> periodData[i].document_id,
                        concept |-> fact.concept,
                        value |-> fact.value,
                        geography |-> fact.geography,
                        segment |-> fact.segment,
                        periodType |-> periodType(fact),
                        dimensions |-> fact.dimensions,
                        dimensionCount |-> dimensionCount(fact.dimensions)]]
                 \o Rows(i + 1)
    IN Rows(1)

buildTimeSeriesTable(periodData) ==
    LET RECURSIVE Rows(_)
        Rows(i) ==
            IF i > Len(periodData) THEN <<>>
            ELSE [j \in 1..Len(periodData[i].facts) |->
                    LET fact == periodData[i].facts[j]
                    IN [period |-> periodData[i].period,
                        document_id |-> periodData[i].document_id,
                        concept |-> fact.concept,
                        value |-> fact.value,
                        geography |-> fact.geography,
                        segment |-> fact.segment,
                        periodType |-> periodType(fact),
                        dimensions |-> fact.dimensions,
                        dimensionCount |-> dimensionCount(fact.dimensions)]]
                 \o Rows(i + 1)
    IN SortStable(Rows(1), "periodValue")

\* timeSeries.filter(t => t.period === period)
RowsOfPeriod(timeSeries, period) ==
    FilterIdx(timeSeries, {i \in 1..Len(timeSeries) : timeSeries[i].period = period}, 1)

\* data.filter(d => d.geography === geo).reduce((sum, d) => sum + d.value, 0)
SumOfGeography(data, geo) ==
    SumSeq([i \in 1..Len(data) |-> IF data[i].geography = geo THEN Num(data[i].value) ELSE 0])

SumOfValues(data) == SumSeq([i \in 1..Len(data) |-> Num(data[i].value)])

\* the entries one pair of periods adds to growthRates (growthRate in hundredths
\* of a percent: parseFloat(growthRate.toFixed(2)))
GrowthEntries(timeSeries, currentPeriod, priorPeriod) ==
    LET currentData == RowsOfPeriod(timeSeries, currentPeriod)
        priorData == RowsOfPeriod(timeSeries, priorPeriod)
        geographies ==
            Unique([i \in 1..Len(currentData) |-> currentData[i].geography]
                   \o [i \in 1..Len(priorData) |-> priorData[i].geography])
        RECURSIVE Entries(_)
        Entries(g) ==
            IF g > Len(geographies) THEN <<>>
            ELSE LET geo == geographies[g]
                     currentValue == SumOfGeography(currentData, geo)
                     priorValue == SumOfGeography(priorData, geo)
                 IN (IF priorValue > 0
                     THEN <<[from |-> priorPeriod,
                             to |-> currentPeriod,
                             geography |-> geo,
                             priorValue |-> priorValue,
                             currentValue |-> currentValue,
                             absoluteChange |-> currentValue - priorValue,
                             growthRate |-> ToFixed2((currentValue - priorValue) * 100,
                                                     priorValue)]>>
                     ELSE <<>>)
                    \o Entries(g + 1)
    IN Entries(1)

calculateGrowthRates(timeSeries, periodData) ==
    LET periods == SortStable([i \in 1..Len(periodData) |-> periodData[i].period], "default")
        RECURSIVE Pairs(_)
        Pairs(i) ==
            IF i > Len(periods) - 1 THEN <<>>
            ELSE GrowthEntries(timeSeries, periods[i], periods[i + 1]) \o Pairs(i + 1)
        growthRates == SortStable(Pairs(1), "growthAbs")
        n == Len(growthRates)
    IN IF Len(periods) < 2 THEN None
       ELSE Some([rates |-> growthRates,
                  summary |->
                     [totalComparisons |-> n,
                      averageGrowthRate |->
                          IF n > 0
                          THEN Some([num |-> SumSeq([i \in 1..n |-> growthRates[i].growthRate]),
                                     den |-> n])
                          ELSE None,
                      highestGrowth |-> IF n > 0 THEN Some(growthRates[1]) ELSE None,
                      lowestGrowth |-> IF n > 0 THEN Some(growthRates[n]) ELSE None]])

\* number.toFixed(1) of num/den (den > 0), in tenths
ToFixed1(num, den) ==
    LET m == Abs(num) * 10
        q == m \div den
        r == m - q * den
        n == IF 2 * r >= den THEN q + 1 ELSE q
    IN IF num < 0 THEN -n ELSE n

\* the mix of one period by geography or by segment: kind names the field
MixOf(periodData, total, kind) ==
    LET labels == {periodData[i][kind] : i \in 1..Len(periodData)}
    IN [l \in labels |->
          LET value == SumSeq([i \in 1..Len(periodData) |->
                                 IF periodData[i][kind] = l
                                 THEN Num(periodData[i].value) ELSE 0])
          IN [value |-> value,
              percentage |-> IF total > 0 THEN [num |-> value * 100, den |-> total]
                             ELSE [num |-> 0, den |-> 1],
              percentageFormatted |-> IF total > 0 THEN Some(ToFixed1(value * 100, total))
                                      ELSE None]]

\* mixByPeriod, a function of the period
analyzeMix(timeSeries, options) ==
    LET periods == {timeSeries[i].period : i \in 1..Len(timeSeries)}
    IN [period \in periods |->
          LET periodData == RowsOfPeriod(timeSeries, period)
              total == SumOfValues(periodData)
          IN Spread(Spread([total |-> total],
                           IF options.includeGeography
                           THEN [geographic |-> MixOf(periodData, total, "geography")]
                           ELSE EmptyObject),
                    IF options.includeSegments
                    THEN [segment |-> MixOf(periodData, total, "segment")]
                    ELSE EmptyObject)]

\* thresholds that take the boundary in
trendDirectionInclusive(overallChangePercent) ==
    IF overallChangePercent.num >= 5 * overallChangePercent.den THEN "increasing"
    ELSE IF overallChangePercent.num <= (-5) * overallChangePercent.den THEN "decreasing"
    ELSE "stable"

\* let direction = 'stable'; if (p > 5) 'increasing' else if (p < -5) 'decreasing'
trendDirection(overallChangePercent) ==
    IF overallChangePercent.num > 5 * overallChangePercent.den THEN "increasing"
    ELSE IF overallChangePercent.num < (-5) * overallChangePercent.den THEN "decreasing"
    ELSE "stable"

\* the percent change is kept exact, as the fraction num/den, before toFixed
calculateTrends(timeSeries) ==
    LET periods == SortStable(Unique([i \in 1..Len(timeSeries) |-> timeSeries[i].period]),
                              "default")
        periodTotals == [i \in 1..Len(periods) |->
                            [period |-> periods[i],
                             total |-> SumOfValues(RowsOfPeriod(timeSeries, periods[i]))]]
        firstTotal == periodTotals[Len(periodTotals)].total
        lastTotal == periodTotals[1].total
        overallChange == lastTotal - firstTotal
        overallChangePercent ==
            IF firstTotal > 0 THEN [num |-> overallChange * 100, den |-> firstTotal]
            ELSE [num |-> 0, den |-> 1]
    IN IF Len(periods) < 2
       THEN [direction |-> "insufficient_data",
             message |-> "Need at least 2 periods to calculate trends"]
       ELSE [direction |-> trendDirection(overallChangePercent),
             overallChange |-> overallChange,
             overallChangePercent |-> overallChangePercent,
             periodTotals |-> periodTotals,
             firstPeriod |-> [period |-> periodTotals[Len(periodTotals)].period,
                              value |-> firstTotal],
             lastPeriod |-> [period |-> periodTotals[1].period, value |-> lastTotal]]

-----------------------------------------------------------------------------
(* Inputs of timeSeriesAnalysis *)

\* Number.MAX_SAFE_INTEGER, cut to the largest integer the checker holds
MaxSafeInteger == 2147483647
\* defaultOptions.periods
DefaultPeriods == 4

defaultAnalysisOptions ==
    [concept |-> <<"R", "e", "v", "e", "n", "u", "e">>, periods |-> DefaultPeriods,
     includeGeography |-> TRUE, includeSegments |-> TRUE, showGrowthRates |-> TRUE,
     minValue |-> 0, maxValue |-> MaxSafeInteger]

TsOptionsChoices == {EmptyObject, [showGrowthRates |-> FALSE]}

DurationFY == [startDate |-> Date2022, endDate |-> Date2023]
JapanDimensions == Some(<< <<<<"j", "p", ":", "R", "e", "g", "i", "o", "n", "A", "x", "i", "s">>, <<"j", "p", ":", "J", "a", "p", "a", "n", "M", "e", "m", "b", "e", "r">>>> >>)
Revenue(value, dimensions) == Fact(<<"N", "e", "t", "R", "e", "v", "e", "n", "u", "e">>, Some(value), DurationFY, dimensions)

\* the facts of one filing that the concept search finds: totals one step apart
\* (20 to 21 is +5%, 20 to 19 is -5%) and a geography that halves or doubles
PeriodFactChoices ==
    { <<Revenue(20, None)>>,
      <<Revenue(21, None)>>,
      <<Revenue(19, None)>>,
      <<Revenue(0, None)>>,
      <<Revenue(40, JapanDimensions)>>,
      <<Revenue(20, None), Revenue(40, JapanDimensions)>>,
      <<Revenue(21, None), Revenue(20, JapanDimensions)>>,
      <<Revenue(40, JapanDimensions), Revenue(21, None)>>,
      <<Revenue(19, None), Revenue(21, None)>> }

\* period_end of a filing, as the number of its date
PeriodLabels == {20210331, 20220331, 20230331}

\* searchCriteria of the fetch loop
TsSearchCriteria(analysisOptions) ==
    [concept |-> analysisOptions.concept,
     valueRange |-> Some([min |-> analysisOptions.minValue,
                          max |-> analysisOptions.maxValue]),
     hasValue |-> TRUE]

\* what the JP loop pushes for a filing whose facts match
CollectedPeriod(period, xbrlFacts, analysisOptions) ==
    LET facts == filterFacts(xbrlFacts, TsSearchCriteria(analysisOptions))
    IN [period |-> period,
        document_id |-> DocS100,
        country |-> "JP",
        facts |-> [i \in 1..Len(facts) |-> EnrichPeriodFact(facts[i])]]

\* periodData when the fetch loop is over: at most options.periods periods,
\* each with at least one fact, in the order the filings were listed
CollectedPeriodData(analysisOptions) ==
    LET one == {r \in {CollectedPeriod(p, x, analysisOptions) :
                          p \in PeriodLabels, x \in PeriodFactChoices} :
                   Len(r.facts) > 0}
    IN UNION {[1..n -> one] : n \in 0..MaxPeriods}

\* a member of the segment axis
PharmaDimensions == Some(<< <<<<"j", "p", ":", "B", "u", "s", "i", "n", "e", "s", "s", "S", "e", "g", "m", "e", "n", "t", "s", "M", "e", "m", "b", "e", "r">>, <<"j", "p", ":", "P", "h", "a", "r", "m", "a", "M", "e", "m", "b", "e", "r">>>> >>)

\* the options that switch a mix off, with a search that takes losses in
SignedOptionsChoices ==
    {Spread([minValue |-> -100], Spread(g, sg)) :
        g \in {EmptyObject, [includeGeography |-> FALSE]},
        sg \in {EmptyObject, [includeSegments |-> FALSE]}}

\* the facts of one filing when the search takes negative values in: a loss,
\* a zero, a loss in one geography, a total of zero made of two values
SignedFactChoices ==
    { <<Revenue(20, None)>>,
      <<Revenue(-20, None)>>,
      <<Revenue(0, None)>>,
      <<Revenue(-40, JapanDimensions), Revenue(20, None)>>,
      <<Revenue(40, JapanDimensions), Revenue(10, PharmaDimensions)>>,
      <<Revenue(-10, None), Revenue(10, JapanDimensions)>> }

SignedPeriodData(analysisOptions) ==
    LET one == {r \in {CollectedPeriod(p, x, analysisOptions) :
                          p \in PeriodLabels, x \in SignedFactChoices} :
                   Len(r.facts) > 0}
    IN UNION {[1..n -> one] : n \in 0..MaxPeriods}

-----------------------------------------------------------------------------
(* timeSeriesAnalysis from the end of its fetch loop to its return *)

TS_Analyze ==
    /\ ts_pc = "collected"
    /\ LET analysisOptions == Spread(defaultAnalysisOptions, ts_options)
           periodData == SortStable(ts_periodData, "periodDesc")
           timeSeriesTable == buildTimeSeriesTable(periodData)
           n == Len(periodData)
       IN ts_result' =
            IF n = 0
            THEN Failed("No valid period data found for concept")
            ELSE [status |-> "ok",
                  periods |-> SortStable([i \in 1..n |-> periodData[i].period], "default"),
                  periodsAnalyzed |-> n,
                  timeSeries |-> timeSeriesTable,
                  growthAnalysis |->
                      IF analysisOptions.showGrowthRates /\ n >= 2
                      THEN calculateGrowthRates(timeSeriesTable, periodData)
                      ELSE None,
                  mixAnalysis |->
                      IF analysisOptions.includeGeography \/ analysisOptions.includeSegments
                      THEN Some(analyzeMix(timeSeriesTable, analysisOptions))
                      ELSE None,
                  trends |-> calculateTrends(timeSeriesTable),
                  summary |->
                      [totalPeriods |-> n,
                       totalDataPoints |-> Len(timeSeriesTable),
                       dateRange |-> [from |-> periodData[n].period,
                                      to |-> periodData[1].period],
                       uniqueGeographies |->
                           Unique([i \in 1..Len(timeSeriesTable) |->
                                      timeSeriesTable[i].geography]),
                       uniqueSegments |->
                           Unique([i \in 1..Len(timeSeriesTable) |->
                                      timeSeriesTable[i].segment])]]
    /\ ts_pc' = "done"
    /\ UNCHANGED <<ts_options, ts_periodData, not_ts>>

TSNext == TS_Analyze

-----------------------------------------------------------------------------
(* edinetApi.getCompanyFilings (edinet-api.js): one action per awaited request *)

\* limit = 100
DefaultLimit == 100

OwnCode == <<"E", "1">>
OtherCode == <<"E", "2">>

Digits == <<"1", "2", "3", "4", "5", "6", "7", "8", "9">>

\* docID of the k-th document EDINET lists for the d-th date of the window
DocId(d, k) == <<"S", Digits[d], "0", Digits[k]>>

\* what documents.json lists for one date: no results field, or the filers of
\* the documents of that date, in the order listed
DayChoices ==
    {None, Some(<<OtherCode>>), Some(<<OwnCode>>), Some(<<OtherCode, OwnCode>>),
     Some(<<OwnCode, OwnCode>>)}

\* the dates from start to end, oldest first
Windows == UNION {[1..n -> DayChoices] : n \in 0..MaxDays}

LimitChoices == {EmptyObject, [limit |-> 1], [limit |-> 2]}

\* response.data.results of the d-th date
DayResults(window, d) ==
    [k \in 1..Len(window[d][1]) |->
        [docID |-> DocId(d, k), edinetCode |-> window[d][1][k], submitDateTime |-> d]]

\* results.filter(doc => doc.edinetCode === edinetCode).map(doc => ({...}))
companyFilings(results, edinetCode) ==
    LET own == FilterIdx(results, {k \in 1..Len(results) : results[k].edinetCode = edinetCode}, 1)
    IN [k \in 1..Len(own) |->
          [document_id |-> own[k].docID,
           edinet_code |-> own[k].edinetCode,
           submit_date |-> own[k].submitDateTime]]

CfLimit == IF Has(cf_params, "limit") THEN cf_params.limit ELSE DefaultLimit

\* currentDate <= end && allFilings.length < limit
CfLoopGoesOn == cf_day <= Len(cf_window) /\ Len(cf_allFilings) < CfLimit

\* entry of getCompanyFilings: currentDate = start, allFilings = []
CF_Call ==
    /\ cf_pc = "idle"
    /\ \E options \in LimitChoices, window \in Windows :
          /\ cf_params' = Spread([edinetCode |-> OwnCode], options)
          /\ cf_window' = window
    /\ cf_day' = 1
    /\ cf_allFilings' = <<>>
    /\ cf_pc' = "loop"
    /\ UNCHANGED <<cf_result, not_cf>>

\* the request for currentDate resolves: the company's documents of that date
\* are pushed, and currentDate moves to the next date
CF_DayReturns ==
    /\ cf_pc = "loop"
    /\ CfLoopGoesOn
    /\ cf_allFilings' =
          IF cf_window[cf_day] = None THEN cf_allFilings
          ELSE cf_allFilings \o companyFilings(DayResults(cf_window, cf_day),
                                               cf_params.edinetCode)
    /\ cf_day' = cf_day + 1
    /\ UNCHANGED <<cf_pc, cf_params, cf_window, cf_result, not_cf>>

\* the request for currentDate rejects: the date is skipped
CF_DayFails ==
    /\ cf_pc = "loop"
    /\ CfLoopGoesOn
    /\ cf_day' = cf_day + 1
    /\ UNCHANGED <<cf_pc, cf_params, cf_window, cf_allFilings, cf_result, not_cf>>

\* the loop is over: allFilings.slice(0, limit) is returned
CF_Return ==
    /\ cf_pc = "loop"
    /\ ~CfLoopGoesOn
    /\ cf_result' = [edinet_code |-> cf_params.edinetCode,
                     filings |-> Slice0(cf_allFilings, CfLimit),
                     total_found |-> Len(cf_allFilings)]
    /\ cf_pc' = "done"
    /\ UNCHANGED <<cf_params, cf_window, cf_day, cf_allFilings, not_cf>>

CFNext ==
    \/ CF_Call
    \/ CF_DayReturns
    \/ CF_DayFails
    \/ CF_Return

-----------------------------------------------------------------------------
(* The fetch loop of timeSeriesAnalysis: one action per awaited operation *)

\* new Date().getFullYear()
currentYear == 2024

\* options.periods of the calls explored
PeriodsChoices == {[periods |-> p] : p \in 1..MaxPeriods}

\* the k-th filing getCompanyFilings lists; the second has no period_end
TlFiling(k) ==
    [document_id |-> DocId(k, 1),
     period_end |-> IF k = 2 THEN None ELSE Some(20240331 - 10000 * k),
     submit_date |-> [date |-> 20240630 - 10000 * k, time |-> 900]]

\* filings.filings: getCompanyFilings returns allFilings.slice(0, limit)
TlListings(limit) ==
    {Slice0([k \in 1..n |-> TlFiling(k)], limit) : n \in 0..(limit + 1)}

\* xbrlData.facts of one filing: nothing, no fact of the concept, a fact of the
\* concept without a value, a fact that matches
TlFactChoices ==
    {<<>>,
     <<Fact(<<"T", "o", "t", "a", "l", "A", "s", "s", "e", "t", "s">>, Some(20), DurationFY, None)>>,
     <<Fact(<<"N", "e", "t", "R", "e", "v", "e", "n", "u", "e">>, None, DurationFY, None)>>,
     <<Revenue(20, None)>>,
     <<Revenue(21, None), Revenue(40, JapanDimensions)>>}

TlOptions == Spread(defaultAnalysisOptions, ts_options)

\* filing.period_end || filing.submit_date.substring(0, 10)
TlPeriodOf(filing) ==
    IF filing.period_end # None THEN filing.period_end[1] ELSE filing.submit_date.date

\* the loop condition without processedCount < analysisOptions.periods
TlLoopGoesOnUncapped ==
    IF tl_country = "JP"
    THEN tl_i < Len(tl_units)
    ELSE tl_i < TlOptions.periods

\* i < filings.filings.length && processedCount < analysisOptions.periods (JP),
\* i < analysisOptions.periods (KR); i counts from 0
TlLoopGoesOn ==
    IF tl_country = "JP"
    THEN tl_i < Len(tl_units) /\ tl_processedCount < TlOptions.periods
    ELSE tl_i < TlOptions.periods

TlLogged(event) == Append(tl_log, [event |-> event, unit |-> tl_i + 1])

\* entry: JP asks getCompanyFilings for periods * 2 filings, KR goes to its loop
\* over the business years currentYear - i - 1
TL_Call ==
    /\ tl_pc = "idle"
    /\ ts_pc = "idle"
    /\ \E country \in {"JP", "KR"}, options \in PeriodsChoices :
          /\ tl_country' = country
          /\ ts_options' = options
          /\ IF country = "JP"
             THEN /\ tl_pc' = "awaitFilings"
                  /\ tl_units' = <<>>
                  /\ tl_log' = <<[event |-> "list", unit |-> options.periods * 2]>>
             ELSE /\ tl_pc' = "loop"
                  /\ tl_units' = [i \in 1..options.periods |-> currentYear - (i - 1) - 1]
                  /\ tl_log' = <<>>
    /\ tl_i' = 0
    /\ tl_processedCount' = 0
    /\ ts_periodData' = <<>>
    /\ UNCHANGED <<ts_pc, ts_result, not_tl>>

\* getCompanyFilings resolves; an empty list is 'No filings found for company'
TL_FilingsReturn ==
    /\ tl_pc = "awaitFilings"
    /\ \E filings \in TlListings(TlOptions.periods * 2) :
          /\ tl_units' = filings
          /\ IF Len(filings) = 0
             THEN /\ ts_result' = Failed("No filings found for company")
                  /\ tl_pc' = "over"
                  /\ ts_pc' = "done"
             ELSE /\ tl_pc' = "loop"
                  /\ UNCHANGED <<ts_result, ts_pc>>
    /\ UNCHANGED <<tl_country, tl_i, tl_processedCount, tl_log, ts_options,
                   ts_periodData, not_tl>>

\* getCompanyFilings rejects: the call fails before the loop
TL_FilingsThrow ==
    /\ tl_pc = "awaitFilings"
    /\ ts_result' = Failed("Failed to get company filings")
    /\ tl_pc' = "over"
    /\ ts_pc' = "done"
    /\ UNCHANGED <<tl_country, tl_units, tl_i, tl_processedCount, tl_log, ts_options,
                   ts_periodData, not_tl>>

\* the loop condition holds: the fetch of unit i is issued
TL_Fetch ==
    /\ tl_pc = "loop"
    /\ TlLoopGoesOn
    /\ tl_log' = TlLogged("fetch")
    /\ tl_pc' = "awaitFacts"
    /\ UNCHANGED <<tl_country, tl_units, tl_i, tl_processedCount, ts_vars, not_tl>>

\* getFilingFacts resolves: the facts are filtered, a filing with a match is
\* pushed and counted, and the pacing delay is started
TL_FactsReturn ==
    /\ tl_pc = "awaitFacts"
    /\ tl_country = "JP"
    /\ \E xbrlFacts \in TlFactChoices :
          LET filing == tl_units[tl_i + 1]
              collected == [CollectedPeriod(TlPeriodOf(filing), xbrlFacts, TlOptions)
                               EXCEPT !.document_id = filing.document_id]
          IN IF Len(collected.facts) > 0
             THEN /\ ts_periodData' = Append(ts_periodData, collected)
                  /\ tl_processedCount' = tl_processedCount + 1
                  /\ tl_log' = TlLogged("matched")
             ELSE /\ tl_log' = TlLogged("nomatch")
                  /\ UNCHANGED <<ts_periodData, tl_processedCount>>
    /\ tl_pc' = "delay"
    /\ UNCHANGED <<tl_country, tl_units, tl_i, ts_pc, ts_options, ts_result, not_tl>>

\* getFinancialStatements resolves: its object has statements and no facts, so
\* filterFacts throws on facts.filter and the catch moves on to the next year
TL_StatementsReturn ==
    /\ tl_pc = "awaitFacts"
    /\ tl_country = "KR"
    /\ tl_log' = TlLogged("threw")
    /\ tl_i' = tl_i + 1
    /\ tl_pc' = "loop"
    /\ UNCHANGED <<tl_country, tl_units, tl_processedCount, ts_vars, not_tl>>

\* the fetch rejects and the loop is left
TL_FetchThrowsAborts ==
    /\ tl_pc = "awaitFacts"
    /\ tl_log' = TlLogged("threw")
    /\ tl_i' = Len(tl_units)
    /\ tl_pc' = "loop"
    /\ UNCHANGED <<tl_country, tl_units, tl_processedCount, ts_vars, not_tl>>

\* the fetch rejects: catch, continue
TL_FetchThrows ==
    /\ tl_pc = "awaitFacts"
    /\ tl_log' = TlLogged("threw")
    /\ tl_i' = tl_i + 1
    /\ tl_pc' = "loop"
    /\ UNCHANGED <<tl_country, tl_units, tl_processedCount, ts_vars, not_tl>>

\* the 300 ms timer fires: next iteration
TL_DelayOver ==
    /\ tl_pc = "delay"
    /\ tl_log' = TlLogged("delay")
    /\ tl_i' = tl_i + 1
    /\ tl_pc' = "loop"
    /\ UNCHANGED <<tl_country, tl_units, tl_processedCount, ts_vars, not_tl>>

\* the loop condition fails: periodData is what the rest of the call works on
TL_LoopOver ==
    /\ tl_pc = "loop"
    /\ ~TlLoopGoesOn
    /\ tl_pc' = "over"
    /\ ts_pc' = "collected"
    /\ UNCHANGED <<tl_country, tl_units, tl_i, tl_processedCount, tl_log,
                   ts_options, ts_periodData, ts_result, not_tl>>

TLNext ==
    \/ TL_Call
    \/ TL_FilingsReturn
    \/ TL_FilingsThrow
    \/ TL_Fetch
    \/ TL_FactsReturn
    \/ TL_StatementsReturn
    \/ TL_FetchThrows
    \/ TL_DelayOver
    \/ TL_LoopOver

-----------------------------------------------------------------------------
(* Value parsing (xbrl-parser.js).  The argument is a JavaScript value: null,
   a number (written by its digits) or a string.  A parsed number is the exact
   fraction [num, den]; den = 0 is Infinity. *)

JsNull == [type |-> "null", value |-> <<>>]
JsNumber(digits) == [type |-> "number", value |-> digits]
JsString(s) == [type |-> "string", value |-> s]

DecimalDigits == <<"0", "1", "2", "3", "4", "5", "6", "7", "8", "9">>

IsDigit(c) == \E d \in 1..10 : DecimalDigits[d] = c
DigitValue(c) == (CHOOSE d \in 1..10 : DecimalDigits[d] = c) - 1

\* what \s and trim() take for white space: space, tab, line feed, no-break
\* space, ideographic (full-width) space
WhiteSpace == {" ", "U+0009", "U+000A", "U+00A0", "U+3000"}

\* the glyphs of /[△▲－-]/
SignGlyphs == {"U+25B3", "U+25B2", "U+FF0D", "-"}

\* .replace(/[chars]/g, '')
RemoveAll(s, chars) == SelectSeq(s, LAMBDA c : c \notin chars)

\* String.prototype.trim over WhiteSpace
RECURSIVE trimWhiteSpace(_)
trimWhiteSpace(s) ==
    IF s = <<>> THEN s
    ELSE IF s[1] \in WhiteSpace THEN trimWhiteSpace(Tail(s))
    ELSE IF s[Len(s)] \in WhiteSpace THEN trimWhiteSpace(SubSeq(s, 1, Len(s) - 1))
    ELSE s

\* length of the longest prefix of s made of digits
RECURSIVE DigitsPrefixLen(_)
DigitsPrefixLen(s) ==
    IF s = <<>> \/ ~IsDigit(s[1]) THEN 0 ELSE 1 + DigitsPrefixLen(Tail(s))

\* the number a sequence of digits denotes
RECURSIVE DigitsValue(_)
DigitsValue(s) ==
    IF s = <<>> THEN 0
    ELSE 10 * DigitsValue(SubSeq(s, 1, Len(s) - 1)) + DigitValue(s[Len(s)])

RECURSIVE Pow10(_)
Pow10(n) == IF n = 0 THEN 1 ELSE 10 * Pow10(n - 1)

InfinityText == <<"I", "n", "f", "i", "n", "i", "t", "y">>

\* parseFloat: the longest prefix that is a decimal literal (sign, digits,
\* fraction, exponent) or Infinity decides; None is NaN
parseFloat(s) ==
    LET signed == s # <<>> /\ s[1] \in {"+", "-"}
        sign == IF signed /\ s[1] = "-" THEN -1 ELSE 1
        body == IF signed THEN Tail(s) ELSE s
        intLen == DigitsPrefixLen(body)
        afterInt == SubSeq(body, intLen + 1, Len(body))
        dotted == afterInt # <<>> /\ afterInt[1] = "."
        fracLen == IF dotted THEN DigitsPrefixLen(Tail(afterInt)) ELSE 0
        afterFrac == IF dotted THEN SubSeq(afterInt, fracLen + 2, Len(afterInt)) ELSE afterInt
        marked == afterFrac # <<>> /\ afterFrac[1] \in {"e", "E"}
        afterMark == IF marked THEN Tail(afterFrac) ELSE <<>>
        expSigned == afterMark # <<>> /\ afterMark[1] \in {"+", "-"}
        expDigits == IF expSigned THEN Tail(afterMark) ELSE afterMark
        expLen == DigitsPrefixLen(expDigits)
        exponent == (IF expSigned /\ afterMark[1] = "-" THEN -1 ELSE 1)
                       * DigitsValue(SubSeq(expDigits, 1, expLen))
        mantissa == DigitsValue(SubSeq(body, 1, intLen)) * Pow10(fracLen)
                       + DigitsValue(SubSeq(afterInt, 2, fracLen + 1))
    IN IF Len(body) >= Len(InfinityText) /\ SubSeq(body, 1, Len(InfinityText)) = InfinityText
       THEN Some([num |-> sign, den |-> 0])
       ELSE IF intLen = 0 /\ fracLen = 0 THEN None
       ELSE Some([num |-> sign * mantissa * (IF exponent > 0 THEN Pow10(exponent) ELSE 1),
                  den |-> Pow10(fracLen) * (IF exponent < 0 THEN Pow10(-exponent) ELSE 1)])

\* parseFactValue without .replace(/,/g, '')
parseFactValueKeepsCommas(text) ==
    IF text.type # "string" \/ text.value = <<>> THEN None
    ELSE LET cleaned == RemoveAll(RemoveAll(trimWhiteSpace(text.value), WhiteSpace), {"U+3000"})
             isNegative == \/ \E i \in 1..Len(cleaned) : cleaned[i] \in {"U+25B3", "U+25B2", "U+FF0D"}
                           \/ (cleaned # <<>> /\ cleaned[1] = "-")
             num == parseFloat(RemoveAll(cleaned, SignGlyphs))
         IN IF num = None THEN None
            ELSE Some([num[1] EXCEPT !.num = IF isNegative THEN -@ ELSE @])

\* !text is true of null, undefined, 0 and ''; a number is not a string.  The
\* result is nullable: None is null.
parseFactValue(text) ==
    IF text.type # "string" \/ text.value = <<>> THEN None
    ELSE LET cleaned == RemoveAll(RemoveAll(RemoveAll(trimWhiteSpace(text.value), {","}),
                                            WhiteSpace), {"U+3000"})
             isNegative == \/ \E i \in 1..Len(cleaned) : cleaned[i] \in {"U+25B3", "U+25B2", "U+FF0D"}
                           \/ (cleaned # <<>> /\ cleaned[1] = "-")
             num == parseFloat(RemoveAll(cleaned, SignGlyphs))
         IN IF num = None THEN None
            ELSE Some([num[1] EXCEPT !.num = IF isNegative THEN -@ ELSE @])

\* the decimal digits of n >= 0
RECURSIVE ToDigits(_)
ToDigits(n) ==
    IF n < 10 THEN <<DecimalDigits[n + 1]>>
    ELSE Append(ToDigits(n \div 10), DecimalDigits[(n % 10) + 1])

\* a comma before every group of three digits, from the right
RECURSIVE GroupDigits(_)
GroupDigits(digits) ==
    IF Len(digits) <= 3 THEN digits
    ELSE GroupDigits(SubSeq(digits, 1, Len(digits) - 3)) \o <<",">>
            \o SubSeq(digits, Len(digits) - 2, Len(digits))

\* the comma-grouped decimal text of n, as filings print amounts
FormatGrouped(n) == GroupDigits(ToDigits(n))

-----------------------------------------------------------------------------
(* Inline XBRL parser (xbrl-parser.js).  The document is what the cheerio
   selectors find in it: its contexts, its units, its ix:nonFraction and its
   ix:nonNumeric elements in document order, each element with its attributes
   (None when the element does not carry the attribute) and its text.  The
   fields format and context of a fact are left out. *)

\* parseInt(s, 10): sign and leading digits; None is NaN
parseInt(s) ==
    LET signed == s # <<>> /\ s[1] \in {"+", "-"}
        body == IF signed THEN Tail(s) ELSE s
        len == DigitsPrefixLen(body)
    IN IF len = 0 THEN None
       ELSE Some((IF signed /\ s[1] = "-" THEN -1 ELSE 1) * DigitsValue(SubSeq(body, 1, len)))

\* the scale applied a second time
ScaledTwice(value, scaleNum) ==
    IF scaleNum = None THEN [num |-> 0, den |-> 0]
    ELSE IF scaleNum[1] >= 0 THEN [value EXCEPT !.num = @ * Pow10(2 * scaleNum[1])]
    ELSE [value EXCEPT !.den = @ * Pow10(-2 * scaleNum[1])]

\* value * Math.pow(10, scaleNum) on exact fractions; [0, 0] is NaN
Scaled(value, scaleNum) ==
    IF scaleNum = None THEN [num |-> 0, den |-> 0]
    ELSE IF scaleNum[1] >= 0 THEN [value EXCEPT !.num = @ * Pow10(scaleNum[1])]
    ELSE [value EXCEPT !.den = @ * Pow10(-scaleNum[1])]

\* obj[key] of an object built by assignments in document order: the last
\* entry with that id, None when key is undefined or no entry has it
Lookup(entries, key) ==
    LET hits == {i \in 1..Len(entries) : key # None /\ entries[i].id = key[1]}
    IN IF hits = {} THEN None
       ELSE Some(entries[CHOOSE i \in hits : \A j \in hits : i >= j])

\* $elem.attr('scale') || '0'
ScaleOf(elem) == IF elem.scale = None \/ elem.scale = Some(<<>>) THEN <<"0">> ELSE elem.scale[1]

\* if (value !== null && scale) value = value * Math.pow(10, parseInt(scale, 10))
ApplyScale(value, scale) ==
    IF value = None THEN None ELSE Some(Scaled(value[1], parseInt(scale)))

\* the value of an ix:nonFraction element after 'Apply scale'
ScaledValue(elem) == ApplyScale(parseFactValue(JsString(elem.text)), ScaleOf(elem))

\* name.includes(':') ? name.split(':', 2) : ['unknown', name]
NamespaceAndConcept(name) ==
    IF includes(name, <<":">>)
    THEN [namespace |-> split(name, ":")[1], concept |-> split(name, ":")[2]]
    ELSE [namespace |-> <<"u", "n", "k", "n", "o", "w", "n">>, concept |-> name]

\* contexts[contextRef]?.period and contexts[contextRef]?.dimensions || {}
PeriodOfContext(doc, contextRef) ==
    LET context == Lookup(doc.contexts, contextRef)
    IN IF context = None THEN None ELSE Some(context[1].period)

DimensionsOfContext(doc, contextRef) ==
    LET context == Lookup(doc.contexts, contextRef)
    IN IF context = None THEN Some(<<>>) ELSE Some(context[1].dimensions)

\* the object pushed for an ix:nonFraction element
NumericFact(doc, elem) ==
    LET unit == Lookup(doc.units, elem.unitRef)
    IN [namespace |-> NamespaceAndConcept(elem.name[1]).namespace,
        concept |-> NamespaceAndConcept(elem.name[1]).concept,
        value |-> ScaledValue(elem),
        rawValue |-> elem.text,
        contextRef |-> elem.contextRef,
        unitRef |-> elem.unitRef,
        unit |-> IF unit = None THEN None ELSE Some(unit[1].measure),
        decimals |-> elem.decimals,
        scale |-> ScaleOf(elem),
        period |-> PeriodOfContext(doc, elem.contextRef),
        dimensions |-> DimensionsOfContext(doc, elem.contextRef)]

\* the object pushed for an ix:nonNumeric element
TextFact(doc, elem) ==
    [namespace |-> NamespaceAndConcept(elem.name[1]).namespace,
     concept |-> NamespaceAndConcept(elem.name[1]).concept,
     value |-> None,
     rawValue |-> elem.text,
     contextRef |-> elem.contextRef,
     period |-> PeriodOfContext(doc, elem.contextRef),
     dimensions |-> DimensionsOfContext(doc, elem.contextRef),
     type |-> "text"]

\* the ix:nonFraction elements that reach facts.push
Pushed(doc, includeNonNumeric) ==
    SelectSeq(doc.nonFraction, LAMBDA elem : ScaledValue(elem) # None \/ includeNonNumeric)

\* name.includes on an element without a name attribute throws a TypeError,
\* which the catch turns into 'Failed to parse iXBRL'
ParsedFacts(facts) ==
    [status |-> "ok",
     facts |-> facts,
     total_facts |-> Len(facts),
     numeric_facts |-> Len(SelectSeq(facts, LAMBDA f : f.value # None))]

\* the facts of the elements that are pushed, or the throw at the first of
\* them that has no name
FactsOfElements(doc, pushed, texts) ==
    IF \/ \E i \in 1..Len(pushed) : pushed[i].name = None
       \/ \E i \in 1..Len(texts) : texts[i].name = None
    THEN Failed("Failed to parse iXBRL")
    ELSE ParsedFacts([i \in 1..Len(pushed) |-> NumericFact(doc, pushed[i])]
                        \o [i \in 1..Len(texts) |-> TextFact(doc, texts[i])])

parseIXBRL(doc, includeNonNumeric) ==
    FactsOfElements(doc, Pushed(doc, includeNonNumeric),
                    IF includeNonNumeric THEN doc.nonNumeric ELSE <<>>)


(* DART line items (xbrl-parser.js, parseXBRLJSON).  An item carries the text
   of its current-term and prior-term amounts, each None when the key is
   missing; list is an array, something else, or missing. *)

\* item.thstrm_amount || '0': the prior-term amount never read
AmountTextCurrentOnly(item) ==
    IF item.thstrm_amount # None /\ item.thstrm_amount[1] # <<>> THEN item.thstrm_amount[1]
    ELSE <<"0">>

\* item.thstrm_amount || item.frmtrm_amount || '0'
AmountText(item) ==
    IF item.thstrm_amount # None /\ item.thstrm_amount[1] # <<>> THEN item.thstrm_amount[1]
    ELSE IF item.frmtrm_amount # None /\ item.frmtrm_amount[1] # <<>> THEN item.frmtrm_amount[1]
    ELSE <<"0">>

\* parseFactValue of a key that may be missing
TermValue(text) == parseFactValue(IF text = None THEN JsNull ELSE JsString(text[1]))

LineItemFact(item) ==
    [namespace |-> "k-gaap",
     concept |-> item.account_id,
     value |-> parseFactValue(JsString(AmountText(item))),
     currentTerm |-> TermValue(item.thstrm_amount),
     previousTerm |-> TermValue(item.frmtrm_amount),
     source |-> "DART"]

LineItemFacts(facts) ==
    [facts |-> facts,
     total_facts |-> Len(facts),
     numeric_facts |-> Len(SelectSeq(facts, LAMBDA f : f.value # None))]

parseXBRLJSON(jsonData) ==
    LineItemFacts(IF jsonData.list.isArray
                  THEN [i \in 1..Len(jsonData.list.items) |->
                           LineItemFact(jsonData.list.items[i])]
                  ELSE <<>>)

-----------------------------------------------------------------------------
(* The pure functions of xbrl-parser.js and fact-table-builder.js, each applied
   once to an input of a bounded set *)

\* words that concept names are made of
ConceptTokens ==
    {<<"C", "o", "s", "t">>,
     <<"E", "x", "p", "e", "n", "s", "e">>,
     <<"R", "e", "v", "e", "n", "u", "e">>,
     <<"S", "a", "l", "e", "s">>,
     <<"O", "p", "e", "r", "a", "t", "i", "n", "g">>,
     <<"A", "s", "s", "e", "t", "s">>,
     <<"C", "u", "r", "r", "e", "n", "t">>,
     <<"N", "o", "n", "c", "u", "r", "r", "e", "n", "t">>,
     <<"N", "o", "n", "-", "c", "u", "r", "r", "e", "n", "t">>,
     <<"T", "o", "t", "a", "l">>,
     <<"L", "i", "a", "b", "i", "l", "i", "t", "i", "e", "s">>,
     <<"G", "o", "o", "d", "w", "i", "l", "l">>,
     <<"U+B9E4", "U+CD9C">>,
     <<"U+C6D0", "U+AC00">>,
     <<"U+C790", "U+C0B0">>,
     <<"U+C720", "U+B3D9">>,
     <<"U+BE44", "U+C720", "U+B3D9">>,
     <<"U+BD80", "U+CC44">>,
     <<"U+8CBB", "U+7528">>,
     <<"U+8CC7", "U+7523">>,
     <<"U+56FA", "U+5B9A">>,
     <<"U+7DCF">>}

\* concept names of the test-suite and others with mixed case or scripts
ConceptSpecials ==
    {<<"C", "o", "s", "t", "O", "f", "S", "a", "l", "e", "s", "R", "e", "v", "e", "n", "u", "e">>,
     <<"C", "O", "S", "T", "O", "F", "S", "A", "L", "E", "S">>,
     <<"T", "O", "T", "A", "L", "A", "S", "S", "E", "T", "S">>,
     <<"U+58F2", "U+4E0A", "U+539F", "U+4FA1">>,
     <<"U+8CA0", "U+50B5", "U+5408", "U+8A08">>,
     <<"U+6D41", "U+52D5", "U+8CA0", "U+50B5">>,
     <<"U+D569", "U+ACC4", "U+C790", "U+C0B0">>,
     <<"T", "o", "t", "a", "l", "C", "u", "r", "r", "e", "n", "t", "A", "s", "s", "e", "t", "s">>,
     <<"T", "o", "t", "a", "l", "C", "u", "r", "r", "e", "n", "t", "L", "i", "a", "b", "i", "l", "i", "t", "i", "e", "s">>}

\* the concatenations of up to n tokens
RECURSIVE TokenStrings(_)
TokenStrings(n) ==
    IF n = 0 THEN {<<>>}
    ELSE LET shorter == TokenStrings(n - 1)
         IN shorter \cup {s \o t : s \in shorter, t \in ConceptTokens}

Concepts == (TokenStrings(MaxTokens) \ {<<>>}) \cup ConceptSpecials

\* no function has been applied
FNIdle ==
    /\ fn_op = "idle"
    /\ fn_in = <<>>
    /\ fn_out = <<>>

\* xbrlParser.classifyFact(concept)
FN_classifyFact ==
    /\ fn_op = "idle"
    /\ \E concept \in Concepts :
          /\ fn_in' = concept
          /\ fn_out' = classifyFact(concept)
    /\ fn_op' = "classifyFact"
    /\ UNCHANGED not_fn

\* axis identifiers: two of geography, one of segments, one of products, one
\* of no kind
DimensionKeys ==
    {<<"i", "f", "r", "s", "-", "f", "u", "l", "l", ":", "G", "e", "o", "g", "r", "a", "p", "h", "i", "c", "a", "l", "A", "r", "e", "a", "s", "M", "e", "m", "b", "e", "r">>,
     <<"U+5730", "U+57DF">>,
     <<"i", "f", "r", "s", "-", "f", "u", "l", "l", ":", "S", "e", "g", "m", "e", "n", "t", "s", "M", "e", "m", "b", "e", "r">>,
     <<"i", "f", "r", "s", "-", "f", "u", "l", "l", ":", "P", "r", "o", "d", "u", "c", "t", "s", "A", "n", "d", "S", "e", "r", "v", "i", "c", "e", "s", "M", "e", "m", "b", "e", "r">>,
     <<"j", "p", ":", "C", "u", "r", "r", "e", "n", "c", "y", "A", "x", "i", "s">>}

\* member labels: plain, with namespace and Member suffix, in another script,
\* empty
DimensionValues ==
    {<<"J", "a", "p", "a", "n">>,
     <<"j", "p", ":", "N", "o", "r", "t", "h", "A", "m", "e", "r", "i", "c", "a", "M", "e", "m", "b", "e", "r">>,
     <<"U+30A2", "U+30B8", "U+30A2">>,
     <<>>}

\* objects of up to n entries with distinct keys, in insertion order
RECURSIVE DimensionEntries(_)
DimensionEntries(n) ==
    IF n = 0 THEN {<<>>}
    ELSE LET shorter == DimensionEntries(n - 1)
         IN shorter \cup
            {Append(d, <<k, v>>) :
                d \in {e \in shorter : Len(e) = n - 1},
                k \in DimensionKeys, v \in DimensionValues}

HasKey(entries, key) == \E i \in 1..Len(entries) : entries[i][1] = key

DimensionsChoices ==
    {None} \cup
    {Some(d) : d \in {e \in DimensionEntries(MaxDims) :
                          \A i \in 1..Len(e) : ~HasKey(SubSeq(e, 1, i - 1), e[i][1])}}

FN_extractGeographyFromDimensions ==
    /\ fn_op = "idle"
    /\ \E dimensions \in DimensionsChoices :
          /\ fn_in' = dimensions
          /\ fn_out' = extractGeographyFromDimensions(dimensions)
    /\ fn_op' = "extractGeographyFromDimensions"
    /\ UNCHANGED not_fn

FN_extractSegmentFromDimensions ==
    /\ fn_op = "idle"
    /\ \E dimensions \in DimensionsChoices :
          /\ fn_in' = dimensions
          /\ fn_out' = extractSegmentFromDimensions(dimensions)
    /\ fn_op' = "extractSegmentFromDimensions"
    /\ UNCHANGED not_fn

FN_extractProductFromDimensions ==
    /\ fn_op = "idle"
    /\ \E dimensions \in DimensionsChoices :
          /\ fn_in' = dimensions
          /\ fn_out' = extractProductFromDimensions(dimensions)
    /\ fn_op' = "extractProductFromDimensions"
    /\ UNCHANGED not_fn

\* facts to filter: a duration fact, an instant fact with a dimension, a fact
\* without a value, an upper-case concept with an empty dimensions object
FilterFactUniverse ==
    {Fact(<<"N", "e", "t", "R", "e", "v", "e", "n", "u", "e">>, Some(20), DurationFY, None),
     Fact(<<"A", "s", "s", "e", "t", "s">>, Some(10), [instant |-> Date2022], JapanDimensions),
     Fact(<<"R", "e", "v", "e", "n", "u", "e">>, None, DurationFY, None),
     Fact(<<"R", "E", "V", "E", "N", "U", "E">>, Some(30), [startDate |-> Date2022, endDate |-> Date2022], Some(<<>>))}

FilterFactLists == UNION {[1..n -> FilterFactUniverse] : n \in 0..MaxFacts}

\* the criteria objects: each option alone, a flag set to false, combinations
CriteriaChoices ==
    {EmptyObject,
     [concept |-> <<"r", "e", "v", "e", "n", "u", "e">>],
     [valueRange |-> Some([min |-> 10, max |-> 20])],
     [valueRange |-> Some([min |-> 20])],
     [valueRange |-> Some(EmptyObject)],
     [period |-> <<"2", "0", "2", "3">>],
     [hasValue |-> TRUE],
     [hasValue |-> FALSE],
     [hasDimensions |-> TRUE],
     [hasDimensions |-> FALSE],
     [concept |-> <<"r", "e", "v", "e", "n", "u", "e">>, valueRange |-> Some([min |-> 20, max |-> 30])],
     [concept |-> <<"r", "e", "v", "e", "n", "u", "e">>, period |-> <<"2", "0", "2", "3">>, hasValue |-> TRUE],
     [concept |-> <<"a", "s", "s", "e", "t">>, valueRange |-> Some([max |-> 10]), period |-> <<"2", "0", "2", "2">>,
      hasValue |-> TRUE, hasDimensions |-> TRUE]}

\* xbrlParser.filterFacts(facts, criteria)
FN_filterFacts ==
    /\ fn_op = "idle"
    /\ \E facts \in FilterFactLists, criteria \in CriteriaChoices :
          /\ fn_in' = [facts |-> facts, criteria |-> criteria]
          /\ fn_out' = filterFacts(facts, criteria)
    /\ fn_op' = "filterFacts"
    /\ UNCHANGED not_fn

\* amounts: zero, below and at a group boundary, several groups
Amounts == {0, 7, 999, 1000, 250000, 1234567}

\* what precedes the digits of a negative amount
SignPrefixes == {<<"U+25B3">>, <<"U+25B2">>, <<"U+FF0D">>, <<"-">>}

\* white space around an amount
Paddings == {<<>>, <<" ">>, <<"U+3000">>, <<"U+0009", "U+3000">>}

\* amounts as filings print them
AmountTexts ==
    {lead \o sign \o FormatGrouped(n) \o trail :
        lead \in Paddings, sign \in SignPrefixes \cup {<<>>}, n \in Amounts,
        trail \in Paddings}

\* texts that are no amount: words, a lone sign glyph, white space, digits
\* with a unit or letters after or before them, a fraction, an exponent
OtherTexts ==
    {<<"n", "o", "t", " ", "a", " ", "n", "u", "m", "b", "e", "r">>,
     <<"a", "b", "c">>,
     <<"U+25B3">>,
     <<"-">>,
     <<"U+FF0D">>,
     <<" ">>,
     <<"1", "2", "3", "a", "b", "c">>,
     <<"1", "0", "0", "U+5186">>,
     <<"1", ",", "0", "0", "0", "U+682A">>,
     <<"1", "2", "a", "3">>,
     <<"x", "1", "2">>,
     <<"1", ".", "5">>,
     <<".", "5">>,
     <<"1", "e", "3">>,
     <<"+", "5">>,
     <<"I", "n", "f", "i", "n", "i", "t", "y">>,
     <<".">>,
     <<"1", "-", "2">>}

ParseArguments ==
    {JsNull, JsNumber(<<"0">>), JsNumber(<<"5">>), JsString(<<>>)}
        \cup {JsString(t) : t \in AmountTexts \cup OtherTexts}

\* parseFactValue(text)
FN_parseFactValue ==
    /\ fn_op = "idle"
    /\ \E text \in ParseArguments :
          /\ fn_in' = text
          /\ fn_out' = parseFactValue(text)
    /\ fn_op' = "parseFactValue"
    /\ UNCHANGED not_fn

\* the contexts and units of the documents: a duration with a geography member
\* and an instant without dimensions
IxContexts ==
    <<[id |-> <<"c", "1">>,
       period |-> [instant |-> <<>>, startDate |-> Date2022, endDate |-> Date2023],
       dimensions |-> JapanDimensions[1]],
      [id |-> <<"c", "2">>,
       period |-> [instant |-> Date2023, startDate |-> <<>>, endDate |-> <<>>],
       dimensions |-> <<>>]>>

IxUnits == <<[id |-> <<"J", "P", "Y">>, measure |-> <<"i", "s", "o", "4", "2", "1", "7", ":", "J", "P", "Y">>]>>

\* ix:nonFraction elements: complete with a scale, without a scale attribute,
\* without a name, with a name only, with text that is no number, with
\* nothing but text, with a negative scale
IxNumericElements ==
    {[name |-> Some(<<"j", "p", "p", "f", "s", "_", "c", "o", "r", ":", "N", "e", "t", "S", "a", "l", "e", "s">>), contextRef |-> Some(<<"c", "1">>), unitRef |-> Some(<<"J", "P", "Y">>),
      decimals |-> Some(<<"-", "6">>), scale |-> Some(<<"6">>), text |-> <<"1", ",", "2", "3", "4">>],
     [name |-> Some(<<"j", "p", "p", "f", "s", "_", "c", "o", "r", ":", "O", "p", "e", "r", "a", "t", "i", "n", "g", "I", "n", "c", "o", "m", "e">>), contextRef |-> Some(<<"c", "1">>), unitRef |-> Some(<<"J", "P", "Y">>),
      decimals |-> Some(<<"0">>), scale |-> None, text |-> <<"U+25B3", "5", "0", "0">>],
     [name |-> None, contextRef |-> Some(<<"c", "1">>), unitRef |-> Some(<<"J", "P", "Y">>),
      decimals |-> Some(<<"0">>), scale |-> Some(<<"3">>), text |-> <<"1", "0", "0">>],
     [name |-> Some(<<"A", "s", "s", "e", "t", "s">>), contextRef |-> None, unitRef |-> None,
      decimals |-> None, scale |-> Some(<<"3">>), text |-> <<"7">>],
     [name |-> Some(<<"j", "p", "p", "f", "s", "_", "c", "o", "r", ":", "N", "e", "t", "S", "a", "l", "e", "s">>), contextRef |-> Some(<<"c", "2">>), unitRef |-> Some(<<"J", "P", "Y">>),
      decimals |-> Some(<<"0">>), scale |-> Some(<<"0">>), text |-> <<"a", "b", "c">>],
     [name |-> None, contextRef |-> None, unitRef |-> None,
      decimals |-> None, scale |-> None, text |-> <<"-">>],
     [name |-> Some(<<"j", "p", "p", "f", "s", "_", "c", "o", "r", ":", "R", "a", "t", "i", "o">>), contextRef |-> Some(<<"c", "1">>), unitRef |-> None,
      decimals |-> Some(<<"3">>), scale |-> Some(<<"-", "2">>), text |-> <<"1", ",", "2", "5", "0">>]}

\* ix:nonNumeric elements: complete, without attributes
IxTextElements ==
    {[name |-> Some(<<"j", "p", "d", "e", "i", "_", "c", "o", "r", ":", "C", "o", "m", "p", "a", "n", "y", "N", "a", "m", "e">>), contextRef |-> Some(<<"c", "1">>), text |-> <<"A", "C", "M", "E">>],
     [name |-> None, contextRef |-> None, text |-> <<"A", "C", "M", "E">>]}

IxDocuments ==
    {[contexts |-> IxContexts, units |-> IxUnits, nonFraction |-> nf, nonNumeric |-> nn] :
        nf \in UNION {[1..n -> IxNumericElements] : n \in 0..MaxElements},
        nn \in {<<>>} \cup {<<e>> : e \in IxTextElements}}

\* xbrlParser.parseIXBRL(htmlContent, {includeNonNumeric})
FN_parseIXBRL ==
    /\ fn_op = "idle"
    /\ \E doc \in IxDocuments, includeNonNumeric \in BOOLEAN :
          /\ fn_in' = [doc |-> doc, includeNonNumeric |-> includeNonNumeric]
          /\ fn_out' = parseIXBRL(doc, includeNonNumeric)
    /\ fn_op' = "parseIXBRL"
    /\ UNCHANGED not_fn

\* amounts of a DART item: missing, empty, a dash, a word, grouped digits
CurrentTermTexts == {None, Some(<<>>), Some(<<"-">>), Some(<<"a", "b", "c">>), Some(<<"1", ",", "0", "0", "0">>)}
PriorTermTexts == {None, Some(<<"1", "0", "0">>)}

LineItems ==
    {[account_id |-> id, thstrm_amount |-> th, frmtrm_amount |-> fr] :
        id \in {<<"R", "e", "v", "e", "n", "u", "e">>}, th \in CurrentTermTexts, fr \in PriorTermTexts}

\* { list: [...] }, { list: {} } and {}
JsonDataChoices ==
    {[list |-> [isArray |-> TRUE, present |-> TRUE, items |-> items]] :
        items \in UNION {[1..n -> LineItems] : n \in 0..MaxElements}}
    \cup {[list |-> [isArray |-> FALSE, present |-> TRUE, items |-> <<>>]],
          [list |-> [isArray |-> FALSE, present |-> FALSE, items |-> <<>>]]}

\* xbrlParser.parseXBRLJSON(jsonData)
FN_parseXBRLJSON ==
    /\ fn_op = "idle"
    /\ \E jsonData \in JsonDataChoices :
          /\ fn_in' = jsonData
          /\ fn_out' = parseXBRLJSON(jsonData)
    /\ fn_op' = "parseXBRLJSON"
    /\ UNCHANGED not_fn

\* the arguments of a tools/call request: target_value and tolerance are None
\* when the key is missing
ToolNames == {"build_fact_table", "search_facts_by_value"}
ToolRequests ==
    {[name |-> n, country |-> "JP", company_id |-> c, target_value |-> t, tolerance |-> tol] :
        n \in ToolNames, c \in {None, Some(OwnCode)},
        t \in {None, Some(0), Some(5000)}, tol \in {None, Some(0), Some(500), Some(1000)}}

\* the facts of the filing that the request reads
ToolFacts == <<Revenue(5000, None), Revenue(5400, None), Revenue(6000, None), Revenue(0, None)>>

\* tolerance: tolerance || 50000000
ToolTolerance(request) ==
    IF request.tolerance = None \/ request.tolerance[1] = 0 THEN DefaultTolerance
    ELSE request.tolerance[1]

\* case 'build_fact_table': case 'search_facts_by_value': of the dispatcher
callTool(request) ==
    IF request.company_id = None \/ request.target_value = None
    THEN Failed("country, company_id, and target_value parameters are required")
    ELSE TableFromFacts(ToolFacts, request.target_value[1], ToolTolerance(request),
                        defaultOptions, EmptyObject)

FN_callTool ==
    /\ fn_op = "idle"
    /\ \E request \in ToolRequests :
          /\ fn_in' = request
          /\ fn_out' = callTool(request)
    /\ fn_op' = "callTool"
    /\ UNCHANGED not_fn

FNNext ==
    \/ FN_callTool
    \/ FN_parseXBRLJSON
    \/ FN_classifyFact
    \/ FN_parseIXBRL
    \/ FN_parseFactValue
    \/ FN_filterFacts
    \/ FN_extractGeographyFromDimensions
    \/ FN_extractSegmentFromDimensions
    \/ FN_extractProductFromDimensions

-----------------------------------------------------------------------------
(* Specifications: one request per behaviour *)

\* no getCompanyFilings call has been made
CFIdle ==
    /\ cf_pc = "idle"
    /\ cf_params = EmptyObject
    /\ cf_window = <<>>
    /\ cf_day = 0
    /\ cf_allFilings = <<>>
    /\ cf_result = EmptyObject

\* no fetch loop is running
TLIdle ==
    /\ tl_pc = "idle"
    /\ tl_country = ""
    /\ tl_units = <<>>
    /\ tl_i = 0
    /\ tl_processedCount = 0
    /\ tl_log = <<>>

InitFT ==
    /\ ft_pc = "idle"
    /\ ft_params = EmptyObject
    /\ ft_filingInfo = EmptyObject
    /\ ft_calls = <<>>
    /\ ft_xbrlData = <<>>
    /\ ft_result = EmptyObject
    /\ ts_pc = "idle"
    /\ ts_options = EmptyObject
    /\ ts_periodData = <<>>
    /\ ts_result = EmptyObject
    /\ CFIdle
    /\ TLIdle
    /\ FNIdle

\* the analysis of every periodData the fetch loop can leave behind
InitTS ==
    /\ ft_pc = "idle"
    /\ ft_params = EmptyObject
    /\ ft_filingInfo = EmptyObject
    /\ ft_calls = <<>>
    /\ ft_xbrlData = <<>>
    /\ ft_result = EmptyObject
    /\ ts_pc = "collected"
    /\ ts_options \in TsOptionsChoices
    /\ ts_periodData \in CollectedPeriodData(Spread(defaultAnalysisOptions, ts_options))
    /\ ts_result = EmptyObject
    /\ CFIdle
    /\ TLIdle
    /\ FNIdle

\* the analysis with a search range that reaches below zero
InitSigned ==
    /\ ft_pc = "idle"
    /\ ft_params = EmptyObject
    /\ ft_filingInfo = EmptyObject
    /\ ft_calls = <<>>
    /\ ft_xbrlData = <<>>
    /\ ft_result = EmptyObject
    /\ ts_pc = "collected"
    /\ ts_options \in SignedOptionsChoices
    /\ ts_periodData \in SignedPeriodData(Spread(defaultAnalysisOptions, ts_options))
    /\ ts_result = EmptyObject
    /\ CFIdle
    /\ TLIdle
    /\ FNIdle

Init == InitFT \/ InitTS

Next == FTNext \/ TSNext \/ CFNext \/ TLNext \/ FNNext

Spec == Init /\ [][Next]_vars
SpecFT == InitFT /\ [][FTNext]_vars
SpecTS == InitTS /\ [][TSNext]_vars
SpecSigned == InitSigned /\ [][TSNext]_vars
SpecCF == InitFT /\ [][CFNext]_vars
SpecTL == InitFT /\ [][TLNext \/ TSNext]_vars
SpecFn == InitFT /\ [][FNNext]_vars

-----------------------------------------------------------------------------
(* Properties of buildFactTable, checked under SpecFT *)

FtReturned == ft_pc = "done" /\ ft_result.status = "ok"

\* the facts of the filing that pass the filter, enriched, in the filing's order
FtMatched ==
    EnrichFacts(filterFacts(ft_xbrlData,
                            searchCriteria(ft_params.targetValue, FtTolerance, FtTableOptions)),
                ft_params.targetValue)

FtDistance(row) == Abs(Num(row.value) - ft_params.targetValue)

FtInWindow(value) ==
    /\ value # None
    /\ value[1] >= ft_params.targetValue - FtTolerance
    /\ value[1] <= ft_params.targetValue + FtTolerance

\* C1: every row of a returned table, and every fact the summary counts, has a
\* value v with targetValue - tolerance <= v <= targetValue + tolerance,
\* whatever options.filters holds
C1_RowsWithinTolerance ==
    FtReturned =>
        /\ \A i \in 1..Len(ft_result.table) : FtInWindow(ft_result.table[i].value)
        /\ Has(ft_result.summary, "valueRange") =>
              /\ ft_result.summary.valueRange.min >= ft_params.targetValue - FtTolerance
              /\ ft_result.summary.valueRange.max <= ft_params.targetValue + FtTolerance

\* a returned row lies outside the window because options.filters carries its
\* own valueRange
C1_RowOutsideWindow ==
    /\ FtReturned
    /\ Has(FtTableOptions.filters, "valueRange")
    /\ \E i \in 1..Len(ft_result.table) : ~FtInWindow(ft_result.table[i].value)

\* C2: summary.closestMatch is a matched fact whose |value - targetValue| is
\* minimal over all matched facts, for every sortBy and maxRows; with the
\* default sortBy and maxRows >= 1 it is the first row of the table
C2_ClosestMatchIsNearest ==
    FtReturned =>
        LET matched == FtMatched
            closest == ft_result.summary.closestMatch
        IN Len(matched) >= 1 =>
              /\ \E i \in 1..Len(matched) : matched[i] = closest
              /\ \A i \in 1..Len(matched) : FtDistance(closest) <= FtDistance(matched[i])
              /\ (FtTableOptions.sortBy = "deviation" /\ FtTableOptions.maxRows >= 1) =>
                    ft_result.table[1] = closest

\* the nearest fact is not the first one matched, and truncation has cut the
\* table below the matched facts
C2_NearestNotFirstMatched ==
    /\ FtReturned
    /\ Has(ft_result, "totalFactsFound")
    /\ ft_result.totalFactsFound >= 2
    /\ ft_result.summary.closestMatch.rowNumber > 1
    /\ FtTableOptions.sortBy = "deviation"
    /\ FtTableOptions.maxRows = 1
    /\ ft_result.table[1].rowNumber > 1

FtMin(a, b) == IF a < b THEN a ELSE b

\* the breakdown by geography or by segment, computed from all the matched facts
FtBreakdownOverAll(breakdown, matched, kind) ==
    LET n == Len(matched)
    IN /\ DOMAIN breakdown =
              {matched[i][kind][1] : i \in {j \in 1..n : matched[j][kind] # None}}
       /\ \A g \in DOMAIN breakdown :
             LET of == {i \in 1..n : matched[i][kind] = Some(g)}
             IN /\ breakdown[g].count = Cardinality(of)
                /\ breakdown[g].totalValue =
                       SumSeq([i \in 1..n |-> IF i \in of THEN Num(matched[i].value) ELSE 0])

\* the summary statistics, computed from all the matched facts
FtStatisticsOverAll(summary, matched) ==
    LET n == Len(matched)
        values == [i \in 1..n |-> Num(matched[i].value)]
        types == [i \in 1..n |-> classifyFact(matched[i].concept)]
    IN /\ summary.exactMatches =
              Cardinality({i \in 1..n :
                             Abs(values[i] - ft_params.targetValue) < ExactMatchThreshold})
       /\ \A i \in 1..n : summary.valueRange.min <= values[i] /\ values[i] <= summary.valueRange.max
       /\ \E i \in 1..n : summary.valueRange.min = values[i]
       /\ \E i \in 1..n : summary.valueRange.max = values[i]
       /\ summary.valueRange.average = [num |-> SumSeq(values), den |-> n]
       /\ DOMAIN summary.businessTypes = {types[i] : i \in 1..n}
       /\ \A t \in DOMAIN summary.businessTypes :
             summary.businessTypes[t] = Cardinality({i \in 1..n : types[i] = t})
       /\ FtBreakdownOverAll(summary.geographicBreakdown, matched, "geography")
       /\ FtBreakdownOverAll(summary.segmentBreakdown, matched, "segment")

\* the table is the first min(maxRows, n) rows of the sorted enriched list
FtTableIsPrefix(matched) ==
    ft_result.table =
        SubSeq(sortFacts(matched, FtTableOptions.sortBy), 1,
               FtMin(FtTableOptions.maxRows, Len(matched)))

\* C3 (as stated): with n matched facts and maxRows >= 0 the table is the first
\* min(maxRows, n) sorted rows, summary.totalFacts = totalFactsFound = n, the
\* statistics are over all n facts, and totalFactsReturned is the table length
C3_CountsForAnyMatchCount ==
    (FtReturned /\ FtTableOptions.maxRows >= 0) =>
        LET matched == FtMatched
        IN /\ FtTableIsPrefix(matched)
           /\ ft_result.summary.totalFacts = Len(matched)
           /\ Has(ft_result, "totalFactsFound")
           /\ ft_result.totalFactsFound = Len(matched)
           /\ Has(ft_result, "totalFactsReturned")
           /\ ft_result.totalFactsReturned = Len(ft_result.table)
           /\ Len(matched) >= 1 => FtStatisticsOverAll(ft_result.summary, matched)

\* C3 (amended): the same, for n >= 1 matched facts; with no match the result
\* carries neither totalFactsFound nor totalFactsReturned
C3_CountsWhenSomeMatch ==
    (FtReturned /\ FtTableOptions.maxRows >= 0) =>
        LET matched == FtMatched
        IN IF Len(matched) >= 1
           THEN /\ FtTableIsPrefix(matched)
                /\ ft_result.summary.totalFacts = Len(matched)
                /\ ft_result.totalFactsFound = Len(matched)
                /\ ft_result.totalFactsReturned = Len(ft_result.table)
                /\ FtStatisticsOverAll(ft_result.summary, matched)
           ELSE /\ ft_result.table = <<>>
                /\ ft_result.summary.totalFacts = 0
                /\ ~Has(ft_result, "totalFactsFound")
                /\ ~Has(ft_result, "totalFactsReturned")

\* truncation has dropped rows, among them facts the summary counts
C3_TruncatedBelowMatches ==
    /\ FtReturned
    /\ Has(ft_result, "totalFactsFound")
    /\ ft_result.totalFactsFound = 3
    /\ FtTableOptions.maxRows = 1
    /\ Len(ft_result.table) = 1
    /\ ft_result.summary.valueRange.min < ft_result.summary.valueRange.max

\* the rows are distinct matched facts: each row is the matched fact its
\* rowNumber names, no fact is taken twice, and none is dropped but by maxRows
FtPermutationPrefix(table, matched) ==
    /\ \A i \in 1..Len(table) :
          /\ table[i].rowNumber \in 1..Len(matched)
          /\ table[i] = matched[table[i].rowNumber]
    /\ \A i, j \in 1..Len(table) : table[i].rowNumber = table[j].rowNumber => i = j
    /\ FtTableOptions.maxRows >= 0 =>
          Len(table) = FtMin(FtTableOptions.maxRows, Len(matched))

\* the order of the UTF-16 code units of Latin letters: upper case first
CodeUnitRank(c) == IF IsUpper(c) THEN LetterIndex(c) ELSE 26 + LetterIndex(c)

\* a <= b in the order that compares strings code unit by code unit
RECURSIVE LexicographicLeq(_, _)
LexicographicLeq(a, b) ==
    IF a = <<>> THEN TRUE
    ELSE IF b = <<>> THEN FALSE
    ELSE IF a[1] = b[1] THEN LexicographicLeq(Tail(a), Tail(b))
    ELSE CodeUnitRank(a[1]) < CodeUnitRank(b[1])

\* a <= b in dictionary order: letter by letter with the case ignored, and
\* between strings that differ in case only, lower case first
DictionaryLeq(a, b) == localeCompare(a, b) <= 0

FtOrderedByDeviation(table) ==
    \A i \in 1..(Len(table) - 1) : FtDistance(table[i]) <= FtDistance(table[i + 1])

FtOrderedByValue(table) ==
    \A i \in 1..(Len(table) - 1) : Num(table[i].value) >= Num(table[i + 1].value)

\* C4 (as stated): the table is ordered by options.sortBy, 'deviation' by
\* non-decreasing |value - targetValue|, 'value' by non-increasing value,
\* 'concept' by lexicographically non-decreasing concept, and its rows are a
\* permutation-prefix of the matched facts
C4_OrderedLexicographically ==
    FtReturned =>
        LET table == ft_result.table
            sortBy == FtTableOptions.sortBy
        IN /\ sortBy = "deviation" => FtOrderedByDeviation(table)
           /\ sortBy = "value" => FtOrderedByValue(table)
           /\ sortBy = "concept" =>
                 \A i \in 1..(Len(table) - 1) :
                    LexicographicLeq(table[i].concept, table[i + 1].concept)
           /\ FtPermutationPrefix(table, FtMatched)

\* C4 (amended): the same, with 'concept' ordering the rows by non-decreasing
\* concept in the dictionary order of localeCompare (case ignored first, lower
\* case before upper case), which is not the order of the code units
C4_OrderedBySortBy ==
    FtReturned =>
        LET table == ft_result.table
            sortBy == FtTableOptions.sortBy
        IN /\ sortBy = "deviation" => FtOrderedByDeviation(table)
           /\ sortBy = "value" => FtOrderedByValue(table)
           /\ sortBy = "concept" =>
                 \A i \in 1..(Len(table) - 1) :
                    DictionaryLeq(table[i].concept, table[i + 1].concept)
           /\ FtPermutationPrefix(table, FtMatched)

\* sorting by concept has moved a lower-case concept in front of an upper-case
\* one that was matched before it
C4_ConceptSortReorders ==
    /\ FtReturned
    /\ FtTableOptions.sortBy = "concept"
    /\ Len(ft_result.table) >= 2
    /\ ft_result.table[1].rowNumber > ft_result.table[2].rowNumber
    /\ IsLower(ft_result.table[1].concept[1])
    /\ IsUpper(ft_result.table[2].concept[1])

\* documentId encodes "businessYear:reportCode"
EncodesYearAndReport(documentId) ==
    LET parts == split(documentId, ":")
    IN Len(parts) = 2 /\ parts[1] # <<>> /\ parts[2] # <<>>

\* C10: for country KR, buildFactTable fails with the configuration error,
\* before any upstream fetch, whenever documentId does not encode
\* "businessYear:reportCode" (omitted, without ':', or without a report code)
C10_KrRejectsUnencodedDocumentId ==
    (ft_pc # "idle" /\ ft_params.country = "KR" /\ ~EncodesYearAndReport(FtDocumentId)) =>
        /\ ft_calls = <<>>
        /\ ft_pc = "done"
        /\ ft_result =
              Failed("business_year and report_code are required for Korean filings")

\* a KR call whose documentId has no report code has fetched the annual report
C10_FetchedWithoutReportCode ==
    /\ ft_pc # "idle"
    /\ ft_params.country = "KR"
    /\ FtDocumentId # <<>>
    /\ ~EncodesYearAndReport(FtDocumentId)
    /\ Len(ft_calls) = 1
    /\ ft_calls[1] = ApiCall("dartApi.getFinancialStatements",
                             <<split(FtDocumentId, ":")[1], ReportCodeAnnual>>)


-----------------------------------------------------------------------------
(* Properties of timeSeriesAnalysis, checked under SpecTS *)

TsReturned == ts_pc = "done" /\ ts_result.status = "ok"

\* the periods collected, and the facts collected for a period
TsPeriods == {ts_periodData[i].period : i \in 1..Len(ts_periodData)}
TsPeriodsDistinct == Cardinality(TsPeriods) = Len(ts_periodData)

RECURSIVE TsSumOver(_, _, _)
TsSumOver(i, period, geographies) ==
    IF i > Len(ts_periodData) THEN 0
    ELSE (IF ts_periodData[i].period = period
          THEN LET facts == ts_periodData[i].facts
               IN SumSeq([j \in 1..Len(facts) |->
                            IF facts[j].geography \in geographies
                            THEN Num(facts[j].value) ELSE 0])
          ELSE 0)
         + TsSumOver(i + 1, period, geographies)

TsGeographies ==
    UNION {{ts_periodData[i].facts[j].geography : j \in 1..Len(ts_periodData[i].facts)} :
             i \in 1..Len(ts_periodData)}

\* the sum of a geography in a period, and the total of a period
TsSum(period, geo) == TsSumOver(1, period, {geo})
TsTotal(period) == TsSumOver(1, period, TsGeographies)

\* older and newer are chronologically adjacent periods
TsAdjacent(older, newer) ==
    /\ older \in TsPeriods
    /\ newer \in TsPeriods
    /\ older < newer
    /\ ~\E p \in TsPeriods : older < p /\ p < newer

TsEarliest == CHOOSE p \in TsPeriods : \A q \in TsPeriods : p <= q
TsLatest == CHOOSE p \in TsPeriods : \A q \in TsPeriods : p >= q

TsHasGrowth == TsReturned /\ ts_result.growthAnalysis # None
TsRates == ts_result.growthAnalysis[1].rates

\* C5: in every growth-rate entry, `to`/currentValue belong to the later period
\* of an adjacent pair and `from`/priorValue to the next-older one, so that
\* growthRate = (later sum - earlier sum) / earlier sum * 100 for the geography
C5_GrowthFromOlderToNewer ==
    (TsHasGrowth /\ TsPeriodsDistinct) =>
        \A i \in 1..Len(TsRates) :
            LET entry == TsRates[i]
                later == TsSum(entry.to, entry.geography)
                earlier == TsSum(entry.from, entry.geography)
            IN /\ TsAdjacent(entry.from, entry.to)
               /\ entry.currentValue = later
               /\ entry.priorValue = earlier
               /\ earlier > 0
               /\ entry.growthRate = ToFixed2((later - earlier) * 100, earlier)

\* an entry runs from the newer period to the older one
C5_EntryRunsBackwards ==
    /\ TsHasGrowth
    /\ TsPeriodsDistinct
    /\ \E i \in 1..Len(TsRates) :
          /\ TsAdjacent(TsRates[i].to, TsRates[i].from)
          /\ TsRates[i].currentValue = TsSum(TsRates[i].to, TsRates[i].geography)
          /\ TsRates[i].growthRate < 0
          /\ TsSum(TsRates[i].from, TsRates[i].geography)
               > TsSum(TsRates[i].to, TsRates[i].geography)

\* C6: calculateTrends reports overallChange = latest total - earliest total,
\* firstPeriod the earliest period and lastPeriod the latest, and so
\* 'increasing' when the latest total is more than 5% above the earliest and
\* 'decreasing' when it is more than 5% below
C6_TrendFromEarliestToLatest ==
    (TsReturned /\ Cardinality(TsPeriods) >= 2) =>
        LET trends == ts_result.trends
            first == TsTotal(TsEarliest)
            last == TsTotal(TsLatest)
        IN /\ trends.overallChange = last - first
           /\ trends.firstPeriod = [period |-> TsEarliest, value |-> first]
           /\ trends.lastPeriod = [period |-> TsLatest, value |-> last]
           /\ (first > 0 /\ (last - first) * 100 > 5 * first) => trends.direction = "increasing"
           /\ (first > 0 /\ (last - first) * 100 < (-5) * first) => trends.direction = "decreasing"

\* totals that grow from the earliest to the latest period are reported as a fall
C6_GrowthReportedAsDecrease ==
    /\ TsReturned
    /\ Cardinality(TsPeriods) >= 2
    /\ TsTotal(TsLatest) > TsTotal(TsEarliest)
    /\ ts_result.trends.overallChange < 0
    /\ ts_result.trends.firstPeriod.period = TsLatest
    /\ ts_result.trends.direction = "decreasing"

\* C7: the direction is 'increasing' iff the computed percent change p > 5,
\* 'decreasing' iff p < -5, otherwise 'stable' (p exactly +5 or -5 is stable);
\* with fewer than 2 distinct periods it is 'insufficient_data' and no percent
\* change is computed
C7_StrictTrendThresholds ==
    TsReturned =>
        LET trends == ts_result.trends
        IN IF Cardinality(TsPeriods) < 2
           THEN /\ trends.direction = "insufficient_data"
                /\ ~Has(trends, "overallChangePercent")
                /\ ~Has(trends, "overallChange")
           ELSE LET first == trends.firstPeriod.value
                    last == trends.lastPeriod.value
                    p == trends.overallChangePercent
                IN /\ p = IF first > 0 THEN [num |-> (last - first) * 100, den |-> first]
                          ELSE [num |-> 0, den |-> 1]
                   /\ trends.direction = "increasing" <=> p.num > 5 * p.den
                   /\ trends.direction = "decreasing" <=> p.num < (-5) * p.den
                   /\ trends.direction = "stable" <=>
                         (p.num <= 5 * p.den /\ p.num >= (-5) * p.den)

\* a percent change of exactly +5 is reported as stable
C7_StableAtExactlyFive ==
    /\ TsReturned
    /\ Has(ts_result.trends, "overallChangePercent")
    /\ ts_result.trends.overallChangePercent.num = 5 * ts_result.trends.overallChangePercent.den
    /\ ts_result.trends.direction = "stable"

\* C8: for every adjacent pair, a geography whose prior-period sum is 0 (absent
\* from the prior period included) has no growth-rate entry; no entry divides by
\* zero, and the average is a finite number or 'N/A'
C8_NoEntryForZeroPrior ==
    (TsHasGrowth /\ TsPeriodsDistinct) =>
        /\ \A older, newer \in TsPeriods : \A geo \in TsGeographies :
              (TsAdjacent(older, newer) /\ TsSum(older, geo) = 0) =>
                 ~\E i \in 1..Len(TsRates) :
                      /\ TsRates[i].geography = geo
                      /\ {TsRates[i].from, TsRates[i].to} = {older, newer}
        /\ \A i \in 1..Len(TsRates) : TsRates[i].priorValue > 0
        /\ LET average == ts_result.growthAnalysis[1].summary.averageGrowthRate
           IN average = None \/ average[1].den > 0

\* a geography that first appears in the newer period has an entry of -100%
C8_EntryForNewGeography ==
    /\ TsHasGrowth
    /\ TsPeriodsDistinct
    /\ \E i \in 1..Len(TsRates) :
          /\ TsAdjacent(TsRates[i].to, TsRates[i].from)
          /\ TsSum(TsRates[i].to, TsRates[i].geography) = 0
          /\ TsRates[i].growthRate = -10000

\* C9: highestGrowth is the entry of rates with the greatest growthRate and
\* lowestGrowth the entry with the least, both null when rates is empty
C9_HighestAndLowestGrowth ==
    TsHasGrowth =>
        LET summary == ts_result.growthAnalysis[1].summary
        IN IF Len(TsRates) = 0
           THEN summary.highestGrowth = None /\ summary.lowestGrowth = None
           ELSE /\ summary.highestGrowth # None
                /\ summary.lowestGrowth # None
                /\ \E i \in 1..Len(TsRates) : TsRates[i] = summary.highestGrowth[1]
                /\ \E i \in 1..Len(TsRates) : TsRates[i] = summary.lowestGrowth[1]
                /\ \A i \in 1..Len(TsRates) :
                      /\ summary.highestGrowth[1].growthRate >= TsRates[i].growthRate
                      /\ summary.lowestGrowth[1].growthRate <= TsRates[i].growthRate

\* the entry reported as highest is a fall, next to an entry that is a rise
C9_HighestIsTheLargestFall ==
    /\ TsHasGrowth
    /\ Len(TsRates) >= 2
    /\ ts_result.growthAnalysis[1].summary.highestGrowth[1].growthRate < 0
    /\ \E i \in 1..Len(TsRates) : TsRates[i].growthRate > 0


-----------------------------------------------------------------------------
(* Properties of getCompanyFilings, checked under SpecCF *)

\* the dates of the window on which EDINET lists a document of the company
CfOwnDates ==
    {d \in 1..Len(cf_window) :
        cf_window[d] # None /\ \E k \in 1..Len(cf_window[d][1]) : cf_window[d][1][k] = OwnCode}

\* C11: the filing buildFactTable takes as filings[0] of getCompanyFilings(companyId,
\* {limit: 1}) has the latest date among the company's filings in the lookup
\* window, the list being most-recent-first
C11_FirstFilingIsMostRecent ==
    (cf_pc = "done" /\ Len(cf_result.filings) >= 1) =>
        /\ CfLimit = 1 => \A d \in CfOwnDates : cf_result.filings[1].submit_date >= d
        /\ \A i, j \in 1..Len(cf_result.filings) :
              i < j => cf_result.filings[i].submit_date >= cf_result.filings[j].submit_date

\* with limit 1 the filing returned is the oldest of the window, every date was
\* listed, and a newer filing of the company was never fetched
C11_OldestFilingTaken ==
    /\ cf_pc = "done"
    /\ CfLimit = 1
    /\ Len(cf_result.filings) = 1
    /\ cf_result.filings[1].submit_date = 1
    /\ cf_day = 2
    /\ \E d \in CfOwnDates : d > 1


-----------------------------------------------------------------------------
(* Properties of the fetch loop of timeSeriesAnalysis, checked under SpecTL *)

\* positions of the log that hold the event
TlAt(event) == {j \in 1..Len(tl_log) : tl_log[j].event = event}

\* the units for which the event was logged
TlUnits(event) == {tl_log[j].unit : j \in TlAt(event)}

\* the units the loop has to go through
TlAllUnits == 1..(IF tl_country = "JP" THEN Len(tl_units) ELSE TlOptions.periods)

\* the call is over and the listing gave the loop something to go through
TlLoopRan ==
    /\ tl_pc = "over"
    /\ ts_pc = "done"
    /\ tl_country = "JP" => Len(tl_units) > 0

\* the units of TlUnits("matched"), in loop order
TlYielding == SortStable(FilterIdx([k \in 1..Len(tl_units) |-> k], TlUnits("matched"), 1), "default")

\* C12: a unit whose fetch throws or yields no matching fact is skipped and the
\* loop goes on: every later unit is fetched (until the periods cap is reached),
\* the periods collected are exactly the units that yielded a matching fact, and
\* the call fails with 'No valid period data found for concept' iff none did
C12_FailedUnitsAreSkipped ==
    TlLoopRan =>
        /\ \A k \in TlAllUnits :
              \/ k \in TlUnits("fetch")
              \/ Cardinality({u \in TlUnits("matched") : u < k}) >= TlOptions.periods
        /\ TlUnits("fetch") = TlUnits("matched") \cup TlUnits("nomatch") \cup TlUnits("threw")
        /\ Len(ts_periodData) = Cardinality(TlUnits("matched"))
        /\ \A j \in 1..Len(ts_periodData) :
              /\ ts_periodData[j].document_id = tl_units[TlYielding[j]].document_id
              /\ ts_periodData[j].period = TlPeriodOf(tl_units[TlYielding[j]])
        /\ ts_result = Failed("No valid period data found for concept")
              <=> TlUnits("matched") = {}
        /\ ts_result.status = "ok" <=> TlUnits("matched") # {}

\* the first fetch threw, the second found nothing, the third matched, and the
\* call returned the one period
C12_ThirdUnitCollected ==
    /\ TlLoopRan
    /\ 1 \in TlUnits("threw")
    /\ 2 \in TlUnits("nomatch")
    /\ 3 \in TlUnits("matched")
    /\ ts_result.status = "ok"
    /\ ts_result.periodsAnalyzed = 1

\* C13: on the JP path at most 2 * periods filings are requested and fetched, no
\* fetch is issued once periods filings have yielded a matching fact, and in
\* every result periodsAnalyzed <= periods
C13_FetchesBoundedByPeriods ==
    /\ \A j \in TlAt("list") : tl_log[j].unit = 2 * TlOptions.periods
    /\ tl_country = "JP" =>
          /\ Len(tl_units) <= 2 * TlOptions.periods
          /\ Cardinality(TlAt("fetch")) <= 2 * TlOptions.periods
          /\ \A j \in TlAt("fetch") :
                Cardinality({m \in TlAt("matched") : m < j}) < TlOptions.periods
    /\ (ts_pc = "done" /\ ts_result.status = "ok") =>
          /\ ts_result.periodsAnalyzed <= TlOptions.periods
          /\ Len(ts_result.periods) <= TlOptions.periods

\* 2 * periods filings were listed, periods of them matched at once, and the
\* others were never fetched
C13_StoppedAtPeriods ==
    /\ tl_country = "JP"
    /\ ts_pc = "done"
    /\ ts_result.status = "ok"
    /\ Len(tl_units) = 2 * TlOptions.periods
    /\ ts_result.periodsAnalyzed = TlOptions.periods
    /\ TlUnits("fetch") = 1..TlOptions.periods

\* C14: every fetch attempt, whatever its outcome, is followed by the pacing
\* delay before the next fetch attempt is issued
C14_DelayAfterEveryFetch ==
    \A j, k \in TlAt("fetch") :
        j < k => \E d \in TlAt("delay") : j < d /\ d < k

\* a fetch threw and the next fetch was issued with no delay
C14_FetchRightAfterFailure ==
    \E j \in 1..(Len(tl_log) - 1) :
        /\ tl_log[j].event = "threw"
        /\ tl_log[j + 1].event = "fetch"
        /\ tl_country = "JP"


-----------------------------------------------------------------------------
(* Properties of the pure functions, checked under SpecFn *)

\* C15: a concept that contains an expense keyword, in any case, is classified
\* 'Operating Expenses', 'Cost of Sales' or 'Expenses' and never 'Revenue', also
\* when it contains a revenue keyword
C15_ExpenseBeforeRevenue ==
    (fn_op = "classifyFact" /\ ContainsAny(fn_in, ExpenseKeywords)) =>
        /\ fn_out \in {"Operating Expenses", "Cost of Sales", "Expenses"}
        /\ fn_out # "Revenue"

\* 'CostOfSalesRevenue', which holds 'cost', 'sales' and 'revenue', is 'Cost of Sales'
C15_CostOfSalesRevenue ==
    /\ fn_op = "classifyFact"
    /\ fn_in = <<"C", "o", "s", "t", "O", "f", "S", "a", "l", "e", "s", "R", "e", "v", "e", "n", "u", "e">>
    /\ ContainsAny(fn_in, RevenueKeywords)
    /\ fn_out = "Cost of Sales"

\* C16: a concept with an asset keyword and no expense or revenue keyword is
\* classified by the sub-rules current, non-current, total, generic, in that
\* order; the liability rule does the same with its categories; a concept that
\* no rule matches is 'Other'
C16_SubRulesInOrder ==
    fn_op = "classifyFact" =>
        LET expenseOrRevenue == ContainsAny(fn_in, ExpenseKeywords \cup RevenueKeywords)
            asset == ContainsAny(fn_in, AssetKeywords)
            liability == ContainsAny(fn_in, LiabilityKeywords)
        IN /\ (~expenseOrRevenue /\ asset) =>
                 fn_out = SubRule(fn_in, "Current Assets", "Non-current Assets",
                                  "Total Assets", "Assets")
           /\ (~expenseOrRevenue /\ ~asset /\ liability) =>
                 fn_out = SubRule(fn_in, "Current Liabilities", "Non-current Liabilities",
                                  "Total Liabilities", "Liabilities")
           /\ (~expenseOrRevenue /\ ~asset /\ ~liability
                  /\ ~ContainsAny(fn_in, LaterRuleKeywords)) => fn_out = "Other"

\* 'TotalCurrentAssets' holds 'total' and 'current': the current sub-rule wins
C16_CurrentBeforeTotal ==
    /\ fn_op = "classifyFact"
    /\ fn_in = <<"T", "o", "t", "a", "l", "C", "u", "r", "r", "e", "n", "t", "A", "s", "s", "e", "t", "s">>
    /\ fn_out = "Current Assets"


\* the keyword list of the extractor that was applied
FnKeywords ==
    CASE fn_op = "extractGeographyFromDimensions" -> geoKeys
      [] fn_op = "extractSegmentFromDimensions" -> segmentKeys
      [] fn_op = "extractProductFromDimensions" -> productKeys
      [] OTHER -> <<>>

\* positions of the entries of the argument whose key holds a keyword
FnKeyHits ==
    IF fn_in = None THEN {}
    ELSE {i \in 1..Len(fn_in[1]) :
             \E k \in 1..Len(FnKeywords) : includes(fn_in[1][i][1], FnKeywords[k])}

\* C17: each extractor returns null for null or empty dimensions and when no
\* key holds a keyword of its kind, and otherwise the cleaned value of the first
\* key, in insertion order, that holds one; 'Japan' under
\* 'ifrs-full:GeographicalAreasMember' comes back as exactly 'Japan'
C17_FirstMatchingKeyCleaned ==
    FnKeywords # <<>> =>
        /\ FnKeyHits = {} <=> fn_out = None
        /\ FnKeyHits # {} =>
              LET first == CHOOSE i \in FnKeyHits : \A j \in FnKeyHits : i <= j
                  value == fn_in[1][first][2]
              IN /\ fn_out = Some(cleanDimensionValue(value))
                 /\ \A i \in 1..Len(fn_out[1]) : fn_out[1][i] # ":"
                 /\ value = <<"J", "a", "p", "a", "n">> => fn_out = Some(<<"J", "a", "p", "a", "n">>)
                 /\ value = <<"j", "p", ":", "N", "o", "r", "t", "h", "A", "m", "e", "r", "i", "c", "a", "M", "e", "m", "b", "e", "r">> => fn_out = Some(<<"N", "o", "r", "t", "h", " ", "A", "m", "e", "r", "i", "c", "a">>)

\* two geography keys: the value of the first one, cleaned, is returned and
\* not that of the second
C17_FirstOfTwoGeographyKeys ==
    /\ fn_op = "extractGeographyFromDimensions"
    /\ Cardinality(FnKeyHits) = 2
    /\ fn_in[1][1][2] = <<"j", "p", ":", "N", "o", "r", "t", "h", "A", "m", "e", "r", "i", "c", "a", "M", "e", "m", "b", "e", "r">>
    /\ fn_in[1][2][2] = <<"J", "a", "p", "a", "n">>
    /\ fn_out = Some(<<"N", "o", "r", "t", "h", " ", "A", "m", "e", "r", "i", "c", "a">>)


\* a criterion is supplied when the criteria object holds it: concept and period
\* as a non-empty text, valueRange as an object, hasValue and hasDimensions as
\* a flag that is set
Supplied(criteria, name) ==
    /\ Has(criteria, name)
    /\ CASE name = "valueRange" -> criteria.valueRange # None
         [] name = "hasValue" -> criteria.hasValue
         [] name = "hasDimensions" -> criteria.hasDimensions
         [] name = "concept" -> criteria.concept # <<>>
         [] OTHER -> criteria.period # <<>>

\* the fact satisfies every supplied criterion
Satisfies(fact, criteria) ==
    /\ Supplied(criteria, "concept") =>
          includes(toLowerCase(fact.concept), toLowerCase(criteria.concept))
    /\ Supplied(criteria, "valueRange") =>
          /\ fact.value # None
          /\ Has(criteria.valueRange[1], "min") => fact.value[1] >= criteria.valueRange[1].min
          /\ Has(criteria.valueRange[1], "max") => fact.value[1] <= criteria.valueRange[1].max
    /\ Supplied(criteria, "period") =>
          includes(IF Has(fact.period, "endDate") THEN fact.period.endDate
                   ELSE fact.period.instant, criteria.period)
    /\ Supplied(criteria, "hasValue") => fact.value # None
    /\ Supplied(criteria, "hasDimensions") =>
          (fact.dimensions # None /\ fact.dimensions # Some(<<>>))

\* C18: filterFacts returns, in their original order, exactly the facts that
\* satisfy every supplied criterion (bounds of valueRange inclusive); without
\* criteria it returns every fact; a fact without a value is never returned
\* when valueRange or hasValue is supplied
C18_ConjunctionOfCriteria ==
    fn_op = "filterFacts" =>
        /\ fn_out = SelectSeq(fn_in.facts, LAMBDA fact : Satisfies(fact, fn_in.criteria))
        /\ fn_in.criteria = EmptyObject => fn_out = fn_in.facts
        /\ (Supplied(fn_in.criteria, "valueRange") \/ Supplied(fn_in.criteria, "hasValue")) =>
              \A i \in 1..Len(fn_out) : fn_out[i].value # None

\* concept and valueRange together: of three facts, one of them twice in the
\* list, the two on the bounds of the range are returned in their order
C18_BothBoundsKept ==
    /\ fn_op = "filterFacts"
    /\ Supplied(fn_in.criteria, "concept")
    /\ Supplied(fn_in.criteria, "valueRange")
    /\ Len(fn_in.facts) = 3
    /\ Len(fn_out) = 2
    /\ fn_out[1].value = Some(30)
    /\ fn_out[2].value = Some(20)


\* C19: the comma-grouped text of an integer N >= 0 parses to N, the same text
\* after a sign glyph or an ASCII minus parses to -N, and white space before
\* or after it, full-width spaces included, does not change the result
C19_GroupedIntegersRoundTrip ==
    fn_op = "parseFactValue" =>
        \A n \in Amounts, lead \in Paddings, trail \in Paddings :
            /\ fn_in = JsString(lead \o FormatGrouped(n) \o trail)
                  => fn_out = Some([num |-> n, den |-> 1])
            /\ \A sign \in SignPrefixes :
                  fn_in = JsString(lead \o sign \o FormatGrouped(n) \o trail)
                      => fn_out = Some([num |-> -n, den |-> 1])

\* a full-width space, the triangle, 1,234,567 and a space parse to -1234567
C19_NegativeMillions ==
    /\ fn_op = "parseFactValue"
    /\ fn_in = JsString(<<"U+3000", "U+25B3", "1", ",", "2", "3", "4", ",", "5", "6", "7", " ">>)
    /\ fn_out = Some([num |-> -1234567, den |-> 1])

\* the cleaned text is a number: digits, with at most one fraction point
IsNumberText(s) ==
    /\ \E i \in 1..Len(s) : IsDigit(s[i])
    /\ \A i \in 1..Len(s) : IsDigit(s[i]) \/ s[i] = "."
    /\ Cardinality({i \in 1..Len(s) : s[i] = "."}) <= 1

\* C20: parseFactValue returns null for an argument that is not a string, is
\* empty, or whose text without commas, white space and sign glyphs is not a
\* valid number, as a lone sign glyph or digits followed by other characters
C20_NullUnlessValidNumber ==
    (/\ fn_op = "parseFactValue"
     /\ \/ fn_in.type # "string"
        \/ fn_in.value = <<>>
        \/ ~IsNumberText(RemoveAll(fn_in.value, WhiteSpace \cup SignGlyphs \cup {","})))
        => fn_out = None

\* '123abc' parses to 123
C20_DigitsThenLetters ==
    /\ fn_op = "parseFactValue"
    /\ fn_in = JsString(<<"1", "2", "3", "a", "b", "c">>)
    /\ fn_out = Some([num |-> 123, den |-> 1])


\* the fact as the later stages read it, for a value that is a whole number
AsFact(parsed) ==
    Fact(parsed.concept, Some(parsed.value[1].num),
         IF parsed.period = None THEN EmptyObject ELSE parsed.period[1], parsed.dimensions)

\* the value of the row that each later stage makes of the fact: filterFacts,
\* the enrichment of buildFactTable, the table of timeSeriesAnalysis
RowValues(fact) ==
    LET kept == filterFacts(<<fact>>, searchCriteria(Num(fact.value), 0, defaultOptions))
        row == EnrichFact(kept[1], 1, Num(fact.value))
        series == buildTimeSeriesTable(<<CollectedPeriod(20230331, <<fact>>,
                    [defaultAnalysisOptions EXCEPT !.concept = <<>>, !.minValue = -MaxSafeInteger])>>)
    IN <<kept[1].value, row.value, series[1].value>>

\* C21: the value of a fact that parseIXBRL emits is the number its text
\* parses to times 10^scale, scale 0 when the attribute is missing, and the
\* rows that filterFacts, buildFactTable and timeSeriesAnalysis make of the
\* fact carry that same value
C21_ScaleAppliedOnce ==
    (fn_op = "parseIXBRL" /\ fn_out.status = "ok") =>
        \A i \in 1..Len(fn_out.facts) :
            LET fact == fn_out.facts[i]
                parsed == parseFactValue(JsString(fact.rawValue))
                scale == parseInt(fact.scale)[1]
            IN fact.value # None =>
                  /\ parsed # None
                  /\ fact.value[1].num * parsed[1].den * (IF scale < 0 THEN Pow10(-scale) ELSE 1)
                        = parsed[1].num * fact.value[1].den * (IF scale > 0 THEN Pow10(scale) ELSE 1)
                  /\ fact.value[1].den = 1 =>
                        RowValues(AsFact(fact)) = <<Some(fact.value[1].num), Some(fact.value[1].num),
                                                    Some(fact.value[1].num)>>

\* '1,234' with scale 6 is 1234000000, and the triangle with 500 and no scale
\* attribute is -500
C21_MillionsAndUnscaled ==
    /\ fn_op = "parseIXBRL"
    /\ fn_out.status = "ok"
    /\ Len(fn_out.facts) = 2
    /\ fn_out.facts[1].value = Some([num |-> 1234000000, den |-> 1])
    /\ fn_out.facts[1].scale = <<"6">>
    /\ fn_out.facts[2].value = Some([num |-> -500, den |-> 1])
    /\ fn_out.facts[2].scale = <<"0">>
    /\ RowValues(AsFact(fn_out.facts[1]))[2] = Some(1234000000)

\* C22: parseIXBRL completes when an element lacks name, contextRef, unitRef,
\* decimals or scale: the facts of the other elements are returned and the
\* element is skipped or emitted with the field left null
C22_MissingAttributesTolerated ==
    fn_op = "parseIXBRL" =>
        /\ fn_out.status = "ok"
        /\ \A i \in 1..Len(fn_in.doc.nonFraction) :
              LET elem == fn_in.doc.nonFraction[i]
              IN (elem.name # None /\ ScaledValue(elem) # None) =>
                    \E j \in 1..Len(fn_out.facts) :
                        /\ fn_out.facts[j].rawValue = elem.text
                        /\ fn_out.facts[j].concept = NamespaceAndConcept(elem.name[1]).concept

\* an element with a number and no name attribute, after a complete element:
\* the parse fails and no fact is returned
C22_NamelessElementAborts ==
    /\ fn_op = "parseIXBRL"
    /\ Len(fn_in.doc.nonFraction) = 2
    /\ fn_in.doc.nonFraction[1].name # None
    /\ ScaledValue(fn_in.doc.nonFraction[1]) # None
    /\ fn_in.doc.nonFraction[2].name = None
    /\ ~fn_in.includeNonNumeric
    /\ fn_out = Failed("Failed to parse iXBRL")


\* the first of the texts that is present and not empty, '0' after them
FirstText(texts) ==
    IF texts[1] # None /\ texts[1][1] # <<>> THEN texts[1][1]
    ELSE IF texts[2] # None /\ texts[2][1] # <<>> THEN texts[2][1]
    ELSE <<"0">>

\* the first of the texts that parses to a number, 0 after them
FirstNumber(texts) ==
    IF TermValue(texts[1]) # None THEN TermValue(texts[1])
    ELSE IF TermValue(texts[2]) # None THEN TermValue(texts[2])
    ELSE Some([num |-> 0, den |-> 1])

\* one fact per item in list order, none when list is no array, and
\* numeric_facts the number of facts with a value
LineItemCounts ==
    /\ fn_out.total_facts = Len(fn_in.list.items)
    /\ Len(fn_out.facts) = Len(fn_in.list.items)
    /\ ~fn_in.list.isArray => fn_out.total_facts = 0
    /\ \A i \in 1..Len(fn_out.facts) :
          /\ fn_out.facts[i].concept = fn_in.list.items[i].account_id
          /\ fn_out.facts[i].currentTerm = TermValue(fn_in.list.items[i].thstrm_amount)
    /\ fn_out.numeric_facts = Cardinality({i \in 1..Len(fn_out.facts) : fn_out.facts[i].value # None})

\* C23 (as stated): one fact per item in list order, the value being the
\* current-term amount parsed, the prior-term amount parsed when the
\* current-term amount gives no number, and 0 when neither gives a number
C23_FallsBackWhenNoNumber ==
    fn_op = "parseXBRLJSON" =>
        /\ LineItemCounts
        /\ \A i \in 1..Len(fn_out.facts) :
              LET item == fn_in.list.items[i]
              IN fn_out.facts[i].value = FirstNumber(<<item.thstrm_amount, item.frmtrm_amount>>)

\* C23 (amended): one fact per item in list order, the value being the parse
\* of the first text that is present and not empty among the current-term
\* amount, the prior-term amount and '0': null when that text is no number
C23_FallsBackWhenEmpty ==
    fn_op = "parseXBRLJSON" =>
        /\ LineItemCounts
        /\ \A i \in 1..Len(fn_out.facts) :
              LET item == fn_in.list.items[i]
              IN fn_out.facts[i].value
                   = parseFactValue(JsString(FirstText(<<item.thstrm_amount, item.frmtrm_amount>>)))

\* a dash for the current term and 100 for the prior term give null, an empty
\* current term gives the prior term's 100
C23_DashHidesPriorTerm ==
    /\ fn_op = "parseXBRLJSON"
    /\ Len(fn_out.facts) = 2
    /\ fn_in.list.items[1].thstrm_amount = Some(<<"-">>)
    /\ fn_in.list.items[1].frmtrm_amount = Some(<<"1", "0", "0">>)
    /\ fn_out.facts[1].value = None
    /\ fn_in.list.items[2].thstrm_amount = Some(<<>>)
    /\ fn_in.list.items[2].frmtrm_amount = Some(<<"1", "0", "0">>)
    /\ fn_out.facts[2].value = Some([num |-> 100, den |-> 1])
    /\ fn_out.numeric_facts = 1


\* the tolerance the request asks for: the one supplied, 50000000 when omitted
AskedTolerance == IF fn_in.tolerance = None THEN DefaultTolerance ELSE fn_in.tolerance[1]

\* C25: a build_fact_table or search_facts_by_value request searches
\* [target - tolerance, target + tolerance] for the tolerance supplied, 0
\* included, and uses 50000000 only when tolerance is omitted
C25_SuppliedToleranceUsed ==
    (fn_op = "callTool" /\ fn_out.status = "ok") =>
        /\ fn_out.searchRange = [min |-> fn_in.target_value[1] - AskedTolerance,
                                 max |-> fn_in.target_value[1] + AskedTolerance]
        /\ \A i \in 1..Len(fn_out.table) :
              /\ fn_out.table[i].value[1] >= fn_in.target_value[1] - AskedTolerance
              /\ fn_out.table[i].value[1] <= fn_in.target_value[1] + AskedTolerance

\* target 5000 with tolerance 0: the range is 5000 +/- 50000000 and the table
\* holds the facts of 5400, 6000 and 0 too
C25_ZeroToleranceIsDefault ==
    /\ fn_op = "callTool"
    /\ fn_in.tolerance = Some(0)
    /\ fn_in.target_value = Some(5000)
    /\ fn_out.status = "ok"
    /\ fn_out.searchRange = [min |-> 5000 - DefaultTolerance, max |-> 5000 + DefaultTolerance]
    /\ Len(fn_out.table) = 4


\* C26: the row at position i of the returned table, counted from 1, carries
\* rowNumber = i, whatever sortBy and maxRows are
C26_RowNumberIsPosition ==
    FtReturned => \A i \in 1..Len(ft_result.table) : ft_result.table[i].rowNumber = i

\* two rows come back with the default sort and the first of them carries
\* rowNumber 2: it was the second fact of the filing
C26_SecondFactSortedFirst ==
    /\ FtReturned
    /\ ~Has(ft_params.options, "sortBy")
    /\ Len(ft_result.table) = 2
    /\ ft_result.table[1].rowNumber = 2
    /\ ft_result.table[2].rowNumber = 1


\* C27: a concept that reaches the asset (liability) rule and contains
\* 'noncurrent', 'non-current' or the Korean word for non-current is
\* classified 'Non-current Assets' ('Non-current Liabilities')
C27_NonCurrentClassified ==
    fn_op = "classifyFact" =>
        LET expenseOrRevenue == ContainsAny(fn_in, ExpenseKeywords \cup RevenueKeywords)
            asset == ContainsAny(fn_in, AssetKeywords)
            liability == ContainsAny(fn_in, LiabilityKeywords)
            nonCurrent == ContainsAny(fn_in, {<<"n", "o", "n", "c", "u", "r", "r", "e", "n", "t">>,
                                              <<"n", "o", "n", "-", "c", "u", "r", "r", "e", "n", "t">>,
                                              <<"U+BE44", "U+C720", "U+B3D9">>})
        IN /\ (~expenseOrRevenue /\ asset /\ nonCurrent) => fn_out = "Non-current Assets"
           /\ (~expenseOrRevenue /\ ~asset /\ liability /\ nonCurrent) =>
                 fn_out = "Non-current Liabilities"

\* classifyFact('NoncurrentAssets') is 'Current Assets'
C27_NoncurrentAssetsIsCurrent ==
    /\ fn_op = "classifyFact"
    /\ fn_in = <<"N", "o", "n", "c", "u", "r", "r", "e", "n", "t", "A", "s", "s", "e", "t", "s">>
    /\ fn_out = "Current Assets"


\* C28: every growth-rate entry compares two different periods, also when two
\* collected filings carry the same period, and growthAnalysis holds entries
\* only when trends.direction is not 'insufficient_data'
C28_GrowthComparesDistinctPeriods ==
    (TsReturned /\ ts_result.growthAnalysis # None) =>
        LET rates == ts_result.growthAnalysis[1].rates
        IN /\ \A i \in 1..Len(rates) : rates[i].from # rates[i].to
           /\ Len(rates) > 0 => ts_result.trends.direction # "insufficient_data"

\* two filings of the same period: one growth entry from the period to itself,
\* and a trend of insufficient_data
C28_PeriodComparedWithItself ==
    /\ TsReturned
    /\ Len(ts_periodData) = 2
    /\ ts_periodData[1].period = ts_periodData[2].period
    /\ ts_result.growthAnalysis # None
    /\ Len(ts_result.growthAnalysis[1].rates) = 1
    /\ ts_result.growthAnalysis[1].rates[1].from = ts_result.growthAnalysis[1].rates[1].to
    /\ ts_result.trends.direction = "insufficient_data"

\* C30: the timeSeries table is sorted by period descending and within a
\* period by value descending, the periods list is ascending, and
\* summary.dateRange runs from the earliest period to the latest, from <= to
C30_TableAndPeriodsOrdered ==
    TsReturned =>
        LET table == ts_result.timeSeries
            periods == ts_result.periods
            dateRange == ts_result.summary.dateRange
        IN /\ \A i \in 1..(Len(table) - 1) :
                 \/ table[i].period > table[i + 1].period
                 \/ /\ table[i].period = table[i + 1].period
                    /\ Num(table[i].value) >= Num(table[i + 1].value)
           /\ Len(periods) = Len(ts_periodData)
           /\ {periods[i] : i \in 1..Len(periods)} = TsPeriods
           /\ \A i \in 1..(Len(periods) - 1) : periods[i] <= periods[i + 1]
           /\ \A q \in TsPeriods : dateRange.from <= q /\ q <= dateRange.to
           /\ dateRange.from \in TsPeriods
           /\ dateRange.to \in TsPeriods
           /\ dateRange.from <= dateRange.to

\* the older filing was collected first and holds the smaller fact first: the
\* table starts with the newer period and lists 21 before 19
C30_NewestPeriodLargestValueFirst ==
    /\ TsReturned
    /\ Len(ts_periodData) = 2
    /\ ts_periodData[1].period < ts_periodData[2].period
    /\ Len(ts_periodData[1].facts) = 2
    /\ Num(ts_periodData[1].facts[1].value) < Num(ts_periodData[1].facts[2].value)
    /\ Len(ts_result.timeSeries) = 3
    /\ ts_result.timeSeries[1].period = ts_periodData[2].period
    /\ ts_result.timeSeries[2].value = ts_periodData[1].facts[2].value
    /\ ts_result.timeSeries[3].value = ts_periodData[1].facts[1].value
    /\ ts_result.summary.dateRange = [from |-> ts_periodData[1].period,
                                      to |-> ts_periodData[2].period]


-----------------------------------------------------------------------------
(* Properties of the mix and of the growth rates when values may be negative,
   checked under SpecSigned *)

TsAnalysisOptions == Spread(defaultAnalysisOptions, ts_options)

\* the rows of a period in the returned table
TsRowsOf(period) == RowsOfPeriod(ts_result.timeSeries, period)

\* the sum of the values of the entries of a mix
RECURSIVE MixSum(_, _)
MixSum(mix, labels) ==
    IF labels = {} THEN 0
    ELSE LET l == CHOOSE x \in labels : TRUE
         IN mix[l].value + MixSum(mix, labels \ {l})

\* a mix of the rows by the field kind: one entry per label of the rows, the
\* value of a label the sum of its rows, the values adding up to the total,
\* the percentage value / total * 100 and 'N/A' only for a total of 0
MixIsShareOfTotal(mix, rows, total, kind) ==
    /\ DOMAIN mix = {rows[i][kind] : i \in 1..Len(rows)}
    /\ \A l \in DOMAIN mix :
          /\ mix[l].value = SumSeq([i \in 1..Len(rows) |->
                                      IF rows[i][kind] = l THEN Num(rows[i].value) ELSE 0])
          /\ (mix[l].percentageFormatted = None) <=> (total = 0)
          /\ total # 0 =>
                /\ mix[l].percentage.num * total = mix[l].value * 100 * mix[l].percentage.den
                /\ mix[l].percentageFormatted = Some(ToFixed1(mix[l].value * 100, total))
    /\ MixSum(mix, DOMAIN mix) = total

\* C24: mixAnalysis is null exactly when includeGeography and includeSegments
\* are both false; otherwise, per period, every fact counts under one
\* geography label and one segment label, the values of the labels of a
\* requested kind add up to the period total, and a label's percentage is
\* value / total * 100, 'N/A' when the period total is 0
C24_MixSharesOfPeriodTotal ==
    TsReturned =>
        LET options == TsAnalysisOptions
            mixAnalysis == ts_result.mixAnalysis
        IN /\ (mixAnalysis = None) <=> (~options.includeGeography /\ ~options.includeSegments)
           /\ mixAnalysis # None =>
                 /\ DOMAIN mixAnalysis[1] = TsPeriods
                 /\ \A period \in TsPeriods :
                       LET periodMix == mixAnalysis[1][period]
                           rows == TsRowsOf(period)
                       IN /\ periodMix.total = TsTotal(period)
                          /\ Has(periodMix, "geographic") <=> options.includeGeography
                          /\ Has(periodMix, "segment") <=> options.includeSegments
                          /\ options.includeGeography =>
                                MixIsShareOfTotal(periodMix.geographic, rows,
                                                  periodMix.total, "geography")
                          /\ options.includeSegments =>
                                MixIsShareOfTotal(periodMix.segment, rows,
                                                  periodMix.total, "segment")

\* a period with a loss of 40 in Japan and 20 elsewhere: the total is -20 and
\* Japan's share is 'N/A' with percentage 0
C24_NegativeTotalHasNoShare ==
    /\ TsReturned
    /\ ts_result.mixAnalysis # None
    /\ TsAnalysisOptions.includeGeography
    /\ \E period \in TsPeriods :
          LET periodMix == ts_result.mixAnalysis[1][period]
          IN /\ periodMix.total = -20
             /\ \E l \in DOMAIN periodMix.geographic :
                   /\ periodMix.geographic[l].value = -40
                   /\ periodMix.geographic[l].percentageFormatted = None
                   /\ periodMix.geographic[l].percentage = [num |-> 0, den |-> 1]

\* C29: for each pair of adjacent periods and each geography label present in
\* either of them there is exactly one growth-rate entry whenever the sum of
\* the earlier period is not zero, a negative sum included, and none when it
\* is zero
C29_EntryUnlessPriorIsZero ==
    (TsHasGrowth /\ TsPeriodsDistinct) =>
        \A older \in TsPeriods, newer \in TsPeriods, geo \in TsGeographies :
            (/\ TsAdjacent(older, newer)
             /\ \E i \in 1..Len(ts_periodData) :
                   /\ ts_periodData[i].period \in {older, newer}
                   /\ \E j \in 1..Len(ts_periodData[i].facts) :
                         ts_periodData[i].facts[j].geography = geo) =>
                Cardinality({i \in 1..Len(TsRates) :
                                /\ {TsRates[i].from, TsRates[i].to} = {older, newer}
                                /\ TsRates[i].geography = geo})
                  = IF TsSum(older, geo) # 0 THEN 1 ELSE 0

\* two periods that both hold a loss of 20: no entry is made for the pair
C29_NegativePriorSuppressed ==
    /\ TsHasGrowth
    /\ TsPeriodsDistinct
    /\ Len(ts_periodData) = 2
    /\ TsSum(ts_periodData[1].period, TotalLabel) = -20
    /\ TsSum(ts_periodData[2].period, TotalLabel) = -20
    /\ Len(TsRates) = 0

====
